---------------------------- MODULE Spec2Model ----------------------------
(***************************************************************************)
(* A model of the loan-collection voice bot: the per-turn analysis         *)
(* (nlp.py), the webhook handlers (telephony.py) and the persistence       *)
(* operations they call (db.py).                                           *)
(*                                                                         *)
(* Conventions.                                                            *)
(*  - A caller utterance is a sequence of tokens, the words of the text    *)
(*    separated by single spaces.  The tokens of the model hold no         *)
(*    punctuation other than the apostrophe of a contraction and the       *)
(*    comma of a grouped numeral, so that the \b...\b phrase patterns of   *)
(*    nlp.py match exactly on token boundaries.  Where the code works on   *)
(*    characters (substring tests, the numeral pattern) the model spells   *)
(*    the text out with Spell.                                             *)
(*  - A JSON / Python value is a tagged record: JStr, JNull, JNum, JBool,  *)
(*    JObj, JArr.  A dict is a function from its keys to such values.      *)
(***************************************************************************)
EXTENDS Integers, Sequences, FiniteSets, TLC

(***************************************************************************)
(* utils.py: the enumerations                                              *)
(***************************************************************************)
CallState ==
  {"START", "CONSENT", "VERIFY_IDENTITY", "MAIN_MENU", "COLLECT_DETAILS",
   "WRAP_UP", "END_CALL", "TRANSFER"}

Intent ==
  {"GREETING", "VERIFICATION", "MAKE_PAYMENT", "PROMISE_TO_PAY", "DISPUTE",
   "WRONG_NUMBER", "CALLBACK_LATER", "HARDSHIP", "TRANSFER_AGENT",
   "DO_NOT_CALL", "UNCLEAR"}

Sentiment == {"POSITIVE", "NEUTRAL", "NEGATIVE"}

(***************************************************************************)
(* Values                                                                  *)
(***************************************************************************)
JStr(s) == [t |-> "str", v |-> s]
JNull == [t |-> "null"]
JNum(n) == [t |-> "num", v |-> n]
JBool(b) == [t |-> "bool", v |-> b]
JObj(f) == [t |-> "obj", v |-> f]
JArr(s) == [t |-> "arr", v |-> s]

\* A str whose content is a sequence of tokens (an utterance, a sentence).
JText(toks) == [t |-> "text", v |-> toks]

IsStr(x) == x.t \in {"str", "text"}
IsObj(x) == x.t = "obj"

\* The empty dict {}.
EmptyDict == [k \in {} |-> JNull]

\* d[k] = v added to (or replaced in) the dict d.
DictSet(d, k, v) == [x \in DOMAIN d \cup {k} |-> IF x = k THEN v ELSE d[x]]

\* d.get(k, default)
DictGet(d, k, default) == IF k \in DOMAIN d THEN d[k] ELSE default

(***************************************************************************)
(* Text                                                                    *)
(***************************************************************************)
\* str.lower() on one token: the tokens of the model that hold an upper-case
\* letter, and their lower-case forms.
LowerToken(w) ==
  CASE w = "I" -> "i"
    [] w = "Pay" -> "pay"
    [] w = "Now" -> "now"
    [] w = "STOP" -> "stop"
    [] w = "Tomorrow" -> "tomorrow"
    [] w = "No" -> "no"
    [] w = "Friday" -> "friday"
    [] w = "FRIDAY" -> "friday"
    [] w = "Monday" -> "monday"
    [] OTHER -> w

\* text.lower()
Lower(text) == [i \in 1..Len(text) |-> LowerToken(text[i])]

\* The characters of each lower-case string the model handles.
Spell ==
  "i" :> <<"i">> @@
  "will" :> <<"w", "i", "l", "l">> @@
  "pay" :> <<"p", "a", "y">> @@
  "now" :> <<"n", "o", "w">> @@
  "tomorrow" :> <<"t", "o", "m", "o", "r", "r", "o", "w">> @@
  "promise" :> <<"p", "r", "o", "m", "i", "s", "e">> @@
  "dispute" :> <<"d", "i", "s", "p", "u", "t", "e">> @@
  "wrong" :> <<"w", "r", "o", "n", "g">> @@
  "number" :> <<"n", "u", "m", "b", "e", "r">> @@
  "later" :> <<"l", "a", "t", "e", "r">> @@
  "hardship" :> <<"h", "a", "r", "d", "s", "h", "i", "p">> @@
  "agent" :> <<"a", "g", "e", "n", "t">> @@
  "stop" :> <<"s", "t", "o", "p">> @@
  "calling" :> <<"c", "a", "l", "l", "i", "n", "g">> @@
  "on" :> <<"o", "n">> @@
  "yes" :> <<"y", "e", "s">> @@
  "no" :> <<"n", "o">> @@
  "5000" :> <<"5", "0", "0", "0">> @@
  "2,500" :> <<"2", ",", "5", "0", "0">> @@
  "2500" :> <<"2", "5", "0", "0">> @@
  "next" :> <<"n", "e", "x", "t">> @@
  "week" :> <<"w", "e", "e", "k">> @@
  "me" :> <<"m", "e">> @@
  "upi" :> <<"u", "p", "i">> @@
  "link" :> <<"l", "i", "n", "k">> @@
  "opt" :> <<"o", "p", "t">> @@
  "out" :> <<"o", "u", "t">> @@
  "call" :> <<"c", "a", "l", "l">> @@
  "back" :> <<"b", "a", "c", "k">> @@
  "don't" :> <<"d", "o", "n", "'", "t">> @@
  "know" :> <<"k", "n", "o", "w">> @@
  "loan" :> <<"l", "o", "a", "n">> @@
  "can't" :> <<"c", "a", "n", "'", "t">> @@
  "afford" :> <<"a", "f", "f", "o", "r", "d">> @@
  "hello" :> <<"h", "e", "l", "l", "o">> @@
  "friday" :> <<"f", "r", "i", "d", "a", "y">> @@
  "today" :> <<"t", "o", "d", "a", "y">> @@
  "5th" :> <<"5", "t", "h">> @@
  "march" :> <<"m", "a", "r", "c", "h">> @@
  "rupees" :> <<"r", "u", "p", "e", "e", "s">> @@
  "next week" :> <<"n", "e", "x", "t", " ", "w", "e", "e", "k">> @@
  "5th march" :> <<"5", "t", "h", " ", "m", "a", "r", "c", "h">> @@
  "okay" :> <<"o", "k", "a", "y">> @@
  "sure" :> <<"s", "u", "r", "e">> @@
  "definitely" :> <<"d", "e", "f", "i", "n", "i", "t", "e", "l", "y">> @@
  "will pay" :> <<"w", "i", "l", "l", " ", "p", "a", "y">> @@
  "can pay" :> <<"c", "a", "n", " ", "p", "a", "y">> @@
  "unable" :> <<"u", "n", "a", "b", "l", "e">> @@
  "won't" :> <<"w", "o", "n", "'", "t">> @@
  "refuse" :> <<"r", "e", "f", "u", "s", "e">> @@
  "angry" :> <<"a", "n", "g", "r", "y">> @@
  "rupee" :> <<"r", "u", "p", "e", "e">> @@
  "rs" :> <<"r", "s">> @@
  "rs." :> <<"r", "s", ".">> @@
  "st" :> <<"s", "t">> @@
  "nd" :> <<"n", "d">> @@
  "rd" :> <<"r", "d">> @@
  "th" :> <<"t", "h">> @@
  "speech" :> <<"s", "p", "e", "e", "c", "h">> @@
  "detected" :> <<"d", "e", "t", "e", "c", "t", "e", "d">> @@
  "monday" :> <<"m", "o", "n", "d", "a", "y">> @@
  "month" :> <<"m", "o", "n", "t", "h">> @@
  "or" :> <<"o", "r">> @@
  "next month" :> <<"n", "e", "x", "t", " ", "m", "o", "n", "t", "h">>

\* The string whose characters are cs.
Unspell(cs) == CHOOSE s \in DOMAIN Spell : Spell[s] = cs

\* The characters of a lower-case text: its tokens joined by single spaces.
RECURSIVE Chars(_)
Chars(toks) ==
  IF toks = <<>> THEN <<>>
  ELSE IF Len(toks) = 1 THEN Spell[toks[1]]
  ELSE Spell[toks[1]] \o <<" ">> \o Chars(Tail(toks))

\* needle in hay (Python's substring test), on characters.
Contains(hay, needle) ==
  \E i \in 0..(Len(hay) - Len(needle)) :
    \A j \in 1..Len(needle) : hay[i + j] = needle[j]

Digits == {"0", "1", "2", "3", "4", "5", "6", "7", "8", "9"}

\* \w of the regular expressions, on lower-case text.
WordChars ==
  Digits \cup
  {"a", "b", "c", "d", "e", "f", "g", "h", "i", "j", "k", "l", "m", "n", "o",
   "p", "q", "r", "s", "t", "u", "v", "w", "x", "y", "z", "_"}

\* \b between cs[k] and cs[k+1] (k = 0: before the text, k = Len: after it).
Boundary(cs, k) ==
  (k >= 1 /\ cs[k] \in WordChars) # (k < Len(cs) /\ cs[k + 1] \in WordChars)

\* The phrase (a sequence of tokens) stands in toks at position p.
PhraseAt(phrase, toks, p) ==
  /\ p + Len(phrase) - 1 <= Len(toks)
  /\ \A j \in 1..Len(phrase) : toks[p + j - 1] = phrase[j]

\* A phrase pattern is a sequence of parts joined by ".*"; a part is the set
\* of the phrases it may match, each between word boundaries.  The pattern
\* matches from its k-th part on, in toks at or after position pos.
RECURSIVE MatchFrom(_, _, _, _)
MatchFrom(pattern, k, toks, pos) ==
  IF k > Len(pattern) THEN TRUE
  ELSE \E p \in pos..Len(toks) : \E alt \in pattern[k] :
         /\ PhraseAt(alt, toks, p)
         /\ MatchFrom(pattern, k + 1, toks, p + Len(alt))

\* re.search(pattern, text_lower) for a phrase pattern.
Search(pattern, toks) == MatchFrom(pattern, 1, toks, 1)

\* One word out of a set: \b(a|b|c)\b
W(words) == {<<w>> : w \in words}

\* Two parts joined by \s+ (or a literal space).
Adj(A, B) == {a \o b : a \in A, b \in B}

(***************************************************************************)
(* nlp.py: the rule-based fallback                                         *)
(***************************************************************************)
\* NLPProcessor.intent_patterns: the ordered table (a dict keeps insertion
\* order) of each intent's phrase patterns.
intent_patterns ==
  << [intent |-> "MAKE_PAYMENT", patterns |->
        << << W({"pay", "payment", "paying"}), W({"now", "today", "immediately"}) >>,
           << W({"upi"}), W({"link"}) >>,
           << W({"pai", "paid"}), W({"now"}) >> >>],
     [intent |-> "PROMISE_TO_PAY", patterns |->
        << << W({"pay", "payment"}),
              W({"tomorrow", "friday", "monday", "soon"}) \cup {<<"next", "week">>} >>,
           << W({"promise"}), W({"pay"}) >>,
           << {<<"will", "pay">>}, W({"on", "by"}) >> >>],
     [intent |-> "DISPUTE", patterns |->
        << << Adj(W({"not"}), W({"mine", "my"})) >>,
           << W({"dispute"}) >>,
           << Adj(W({"wrong"}), W({"amount"})) >>,
           << Adj(W({"need"}), W({"statement", "proof", "details"})) >> >>],
     [intent |-> "WRONG_NUMBER", patterns |->
        << << Adj(W({"wrong"}), W({"number"})) >>,
           << Adj(Adj(W({"not"}), W({"me", "the", "a"})), W({"borrower", "person"})) >>,
           << Adj(W({"dont", "don't"}), W({"know"})), W({"loan"}) >> >>],
     [intent |-> "CALLBACK_LATER", patterns |->
        << << Adj(W({"call"}), W({"back"})) >>,
           << W({"later"}) >>,
           << Adj(Adj(W({"not"}), W({"good"})), W({"time"})) >>,
           << W({"busy"}), W({"now"}) >> >>],
     [intent |-> "HARDSHIP", patterns |->
        << << W({"hardship"}) >>,
           << Adj(W({"financial"}), W({"difficulty", "problem"})) >>,
           << Adj(W({"job"}), W({"loss"})) >>,
           << Adj(W({"cant", "can't"}), W({"afford"})) >> >>],
     [intent |-> "TRANSFER_AGENT", patterns |->
        << << W({"agent"}) >>,
           << W({"manager"}) >>,
           << W({"human"}) >>,
           << Adj(Adj(W({"talk"}), W({"to"})), W({"someone"})) >> >>],
     [intent |-> "DO_NOT_CALL", patterns |->
        << << Adj(Adj(W({"do"}), W({"not"})), W({"call"})) >>,
           << Adj(W({"stop"}), W({"calling"})) >>,
           << Adj(W({"dont", "don't"}), W({"call"})) >>,
           << Adj(W({"opt"}), W({"out"})) >> >>] >>

\* One of the intent's patterns is found in the text (the inner loop).
AnyPatternMatches(entry, toks) ==
  \E p \in 1..Len(entry.patterns) : Search(entry.patterns[p], toks)

\* The loop over intent_patterns.items() from the i-th entry on: the first
\* entry with a matching pattern sets detected_intent and ends the loop.
RECURSIVE DetectFrom(_, _)
DetectFrom(toks, i) ==
  IF i > Len(intent_patterns) THEN "UNCLEAR"
  ELSE IF AnyPatternMatches(intent_patterns[i], toks) THEN intent_patterns[i].intent
  ELSE DetectFrom(toks, i + 1)

\* The loop without its outer break: a later matching entry would overwrite
\* detected_intent.
RECURSIVE DetectLastFrom(_, _, _)
DetectLastFrom(toks, i, acc) ==
  IF i > Len(intent_patterns) THEN acc
  ELSE DetectLastFrom(toks, i + 1,
         IF AnyPatternMatches(intent_patterns[i], toks)
         THEN intent_patterns[i].intent ELSE acc)

DetectIntentNoBreak(text_lower) == DetectLastFrom(text_lower, 1, "UNCLEAR")

\* detected_intent of _fallback_analysis
DetectIntent(text_lower) == DetectFrom(text_lower, 1)

positive_words == {"yes", "okay", "sure", "definitely", "will pay", "can pay"}
negative_words == {"no", "can't", "unable", "won't", "refuse", "angry"}

\* sentiment of _fallback_analysis: substring tests, positive first.
DetectSentiment(text_lower) ==
  LET cs == Chars(text_lower) IN
  IF \E w \in positive_words : Contains(cs, Spell[w]) THEN "POSITIVE"
  ELSE IF \E w \in negative_words : Contains(cs, Spell[w]) THEN "NEGATIVE"
  ELSE "NEUTRAL"

\* cs[s..e] matches \d+(?:,\d+)*
IsNumeral(cs, s, e) ==
  /\ s <= e
  /\ cs[s] \in Digits /\ cs[e] \in Digits
  /\ \A j \in s..e : cs[j] \in Digits \cup {","}
  /\ \A j \in s..(e - 1) : ~(cs[j] = "," /\ cs[j + 1] = ",")

\* The string w stands in cs from position p on.
HasAt(cs, p, w) ==
  /\ p + Len(w) - 1 <= Len(cs)
  /\ \A j \in 1..Len(w) : cs[p + j - 1] = w[j]

\* The currency words of the amount pattern (lower-case text of the model
\* holds no rupee sign).
CurrencyWords == {"rupee", "rupees", "rs", "rs."}

\* After the numeral ending at e: \s*(?:rupees?|rs\.?)?\b
AmountTail(cs, e) ==
  \E k \in e..Len(cs) :
    /\ \A j \in (e + 1)..k : cs[j] = " "
    /\ \/ Boundary(cs, k)
       \/ \E c \in CurrencyWords :
            HasAt(cs, k + 1, Spell[c]) /\ Boundary(cs, k + Len(Spell[c]))

\* The ends e of a match of the amount pattern that starts at s.
AmountEnds(cs, s) ==
  {e \in s..Len(cs) :
     Boundary(cs, s - 1) /\ IsNumeral(cs, s, e) /\ AmountTail(cs, e)}

Max(S) == CHOOSE x \in S : \A y \in S : y <= x
Min(S) == CHOOSE x \in S : \A y \in S : x <= y

RECURSIVE StripCommas(_)
StripCommas(cs) ==
  IF cs = <<>> THEN <<>>
  ELSE IF Head(cs) = "," THEN StripCommas(Tail(cs))
  ELSE <<Head(cs)>> \o StripCommas(Tail(cs))

\* amount_match.group(1).replace(',', ''): the leftmost match, its numeral as
\* long as backtracking allows; the empty set when nothing matches.
ExtractAmount(text_lower) ==
  LET cs == Chars(text_lower)
      starts == {s \in 1..Len(cs) : AmountEnds(cs, s) # {}}
  IN IF starts = {} THEN {}
     ELSE LET s == Min(starts)
              e == Max(AmountEnds(cs, s))
          IN {Unspell(StripCommas(SubSeq(cs, s, e)))}

DayWords ==
  {"tomorrow", "today", "monday", "tuesday", "wednesday", "thursday",
   "friday", "saturday", "sunday"}

MonthWords ==
  {"january", "february", "march", "april", "may", "june", "july", "august",
   "september", "october", "november", "december"}

\* The token matches \b\d{1,2}(?:st|nd|rd|th)?
IsDayNumber(w) ==
  LET cs == Spell[w] IN
  \E n \in 1..2 :
    /\ n <= Len(cs)
    /\ \A j \in 1..n : cs[j] \in Digits
    /\ \/ Len(cs) = n
       \/ \E suf \in {"st", "nd", "rd", "th"} : SubSeq(cs, n + 1, Len(cs)) = Spell[suf]

\* date_patterns, in order; each gives the places where it matches and the
\* number of tokens of the match.
DatePlaces(toks, k) ==
  CASE k = 1 -> {p \in 1..Len(toks) : toks[p] \in DayWords}
    [] k = 2 -> {p \in 1..(Len(toks) - 1) :
                   toks[p] = "next" /\ toks[p + 1] \in {"week", "month"}}
    [] k = 3 -> {p \in 1..(Len(toks) - 1) :
                   IsDayNumber(toks[p]) /\ toks[p + 1] \in MonthWords}

DateLen(k) == IF k = 1 THEN 1 ELSE 2

\* slots['date'] = match.group() of the first date pattern that matches.
RECURSIVE ExtractDateFrom(_, _)
ExtractDateFrom(toks, k) ==
  IF k > 3 THEN {}
  ELSE IF DatePlaces(toks, k) # {}
  THEN LET p == Min(DatePlaces(toks, k))
       IN {Unspell(Chars(SubSeq(toks, p, p + DateLen(k) - 1)))}
  ELSE ExtractDateFrom(toks, k + 1)

ExtractDate(text_lower) == ExtractDateFrom(text_lower, 1)

\* slots of _fallback_analysis
ExtractSlots(text_lower) ==
  LET a == ExtractAmount(text_lower)
      d == ExtractDate(text_lower)
      s1 == IF a = {} THEN EmptyDict
            ELSE DictSet(EmptyDict, "amount", JStr(CHOOSE x \in a : TRUE))
  IN IF d = {} THEN s1 ELSE DictSet(s1, "date", JStr(CHOOSE x \in d : TRUE))

\* The replies of _fallback_analysis; a sentence the bot speaks is one token.
ReplyVerify == <<"Thank you. Now, how can I help you with your loan today?">>
ReplyAskAmount == <<"Great! I'll help you make a payment. What amount would you like to pay?">>
ReplyAskDate == <<"I understand. When would you be able to make the payment?">>
ReplyTransfer == <<"I'll transfer you to an agent. Please hold.">>
ReplyOptOut == <<"I understand. I'll add you to our do-not-call list. Have a good day.">>
ReplyGeneric == <<"I understand. Is there anything else I can help you with today?">>

\* The decision without the current_state test: a VERIFY_IDENTITY turn would
\* move on by intent alone.
FallbackDecisionIgnoringState(current_state, detected_intent) ==
  IF detected_intent = "MAKE_PAYMENT"
  THEN [next_state |-> "COLLECT_DETAILS", reply_text |-> ReplyAskAmount]
  ELSE IF detected_intent = "PROMISE_TO_PAY"
  THEN [next_state |-> "COLLECT_DETAILS", reply_text |-> ReplyAskDate]
  ELSE IF detected_intent = "TRANSFER_AGENT"
  THEN [next_state |-> "TRANSFER", reply_text |-> ReplyTransfer]
  ELSE IF detected_intent = "DO_NOT_CALL"
  THEN [next_state |-> "END_CALL", reply_text |-> ReplyOptOut]
  ELSE [next_state |-> "MAIN_MENU", reply_text |-> ReplyGeneric]

\* The decision with the PROMISE_TO_PAY branch lost: a promise falls through
\* to the generic continuation.
FallbackDecisionNoPromise(current_state, detected_intent) ==
  IF current_state = JStr("VERIFY_IDENTITY")
  THEN [next_state |-> IF detected_intent = "VERIFICATION"
                       THEN "MAIN_MENU" ELSE "VERIFY_IDENTITY",
        reply_text |-> ReplyVerify]
  ELSE IF detected_intent = "MAKE_PAYMENT"
  THEN [next_state |-> "COLLECT_DETAILS", reply_text |-> ReplyAskAmount]
  ELSE IF detected_intent = "TRANSFER_AGENT"
  THEN [next_state |-> "TRANSFER", reply_text |-> ReplyTransfer]
  ELSE IF detected_intent = "DO_NOT_CALL"
  THEN [next_state |-> "END_CALL", reply_text |-> ReplyOptOut]
  ELSE [next_state |-> "MAIN_MENU", reply_text |-> ReplyGeneric]

\* next_state and reply_text of _fallback_analysis, by current_state first
\* and detected_intent second.
FallbackDecision(current_state, detected_intent) ==
  IF current_state = JStr("VERIFY_IDENTITY")
  THEN [next_state |-> IF detected_intent = "VERIFICATION"
                       THEN "MAIN_MENU" ELSE "VERIFY_IDENTITY",
        reply_text |-> ReplyVerify]
  ELSE IF detected_intent = "MAKE_PAYMENT"
  THEN [next_state |-> "COLLECT_DETAILS", reply_text |-> ReplyAskAmount]
  ELSE IF detected_intent = "PROMISE_TO_PAY"
  THEN [next_state |-> "COLLECT_DETAILS", reply_text |-> ReplyAskDate]
  ELSE IF detected_intent = "TRANSFER_AGENT"
  THEN [next_state |-> "TRANSFER", reply_text |-> ReplyTransfer]
  ELSE IF detected_intent = "DO_NOT_CALL"
  THEN [next_state |-> "END_CALL", reply_text |-> ReplyOptOut]
  ELSE [next_state |-> "MAIN_MENU", reply_text |-> ReplyGeneric]

\* NLPProcessor._fallback_analysis(text, context); confidence in tenths.
fallback_analysis(text, context) ==
  LET text_lower == Lower(text)
      detected_intent == DetectIntent(text_lower)
      current_state == DictGet(context, "current_state", JStr("START"))
      decision == FallbackDecision(current_state, detected_intent)
  IN [intent |-> JStr(detected_intent),
      sentiment |-> JStr(DetectSentiment(text_lower)),
      slots |-> JObj(ExtractSlots(text_lower)),
      reply_text |-> JText(decision.reply_text),
      next_state |-> JStr(decision.next_state),
      confidence |-> JNum(IF detected_intent = "UNCLEAR" THEN 5 ELSE 7),
      fallback_used |-> JBool(TRUE)]

(***************************************************************************)
(* nlp.py: the remote classifier and the facade                            *)
(***************************************************************************)
\* str.upper() on the strings the remote reply may hold.
Upper(s) ==
  CASE s = "promise_to_pay" -> "PROMISE_TO_PAY"
    [] s = "do_not_call" -> "DO_NOT_CALL"
    [] s = "negative" -> "NEGATIVE"
    [] s = "end_call" -> "END_CALL"
    [] s = "collect_details" -> "COLLECT_DETAILS"
    [] s = "start" -> "START"
    [] s = "bogus" -> "BOGUS"
    [] OTHER -> s

\* The keys of intent_map in _normalize_intent.
intent_map ==
  {"MAKE_PAYMENT", "PROMISE_TO_PAY", "DISPUTE", "WRONG_NUMBER", "CALLBACK_LATER",
   "HARDSHIP", "TRANSFER_AGENT", "DO_NOT_CALL", "VERIFICATION", "GREETING"}

\* The keys of sentiment_map in _normalize_sentiment.
sentiment_map == {"POSITIVE", "NEGATIVE", "NEUTRAL"}

\* The keys of state_map in _normalize_state.
state_map ==
  {"VERIFY_IDENTITY", "MAIN_MENU", "COLLECT_DETAILS", "WRAP_UP", "END_CALL", "TRANSFER"}

\* x.upper() raises AttributeError unless x is a str.
UpperRaises(x) == ~IsStr(x)

normalize_intent(intent) ==
  IF Upper(intent.v) \in intent_map THEN JStr(Upper(intent.v)) ELSE JStr("UNCLEAR")

normalize_sentiment(sentiment) ==
  IF Upper(sentiment.v) \in sentiment_map THEN JStr(Upper(sentiment.v)) ELSE JStr("NEUTRAL")

\* _normalize_state without the lookup in state_map.
normalize_state_unchecked(state) == JStr(Upper(state.v))

normalize_state(state) ==
  IF Upper(state.v) \in state_map THEN JStr(Upper(state.v)) ELSE JStr("MAIN_MENU")

required_fields == {"intent", "sentiment", "slots", "reply_text", "next_state"}

\* Building context_text: the due amount is formatted with ",.2f", which
\* raises TypeError on None (a borrower without a loan row).
ContextTextRaises(context) ==
  LET loan_info == IF "loan" \in DOMAIN context THEN context["loan"].v ELSE EmptyDict
  IN DictGet(loan_info, "due_amount", JNum(0)) = JNull

\* What the remote exchange of one call does.
\*   prompt_missing  open() raises FileNotFoundError
\*   api_error       messages.create raises (network, timeout, HTTP status)
\*   no_json         the response text holds no {...}
\*   bad_json        json.loads raises JSONDecodeError
\*   json            json.loads returns the dict obj
RemoteFailed(remote) ==
  \/ remote.kind \in {"prompt_missing", "api_error", "no_json", "bad_json"}
  \/ /\ remote.kind = "json"
     /\ ~(required_fields \subseteq DOMAIN remote.obj)

\* The three normalisations of a complete response_json, in order; any of
\* them raising leaves the try block for the outer except.
NormalizeRaises(obj) ==
  UpperRaises(obj["intent"]) \/ UpperRaises(obj["sentiment"]) \/ UpperRaises(obj["next_state"])

Normalized(obj) ==
  [k \in DOMAIN obj |->
     CASE k = "intent" -> normalize_intent(obj[k])
       [] k = "sentiment" -> normalize_sentiment(obj[k])
       [] k = "next_state" -> normalize_state(obj[k])
       [] OTHER -> obj[k]]

\* The facade with the required-fields test lost: an incomplete reply is
\* returned as it came.
analyze_utterance_unchecked(client, text, context, remote) ==
  IF client = "None" THEN fallback_analysis(text, context)
  ELSE IF ContextTextRaises(context) THEN fallback_analysis(text, context)
  ELSE IF remote.kind = "json" THEN remote.obj
  ELSE fallback_analysis(text, context)

\* NLPProcessor.analyze_utterance(text, context), for a processor whose
\* client is "None" (construction failed) or "ok", and one outcome of the
\* remote exchange.
analyze_utterance(client, text, context, remote) ==
  IF client = "None" THEN fallback_analysis(text, context)
  ELSE IF ContextTextRaises(context) THEN fallback_analysis(text, context)
  ELSE IF RemoteFailed(remote) THEN fallback_analysis(text, context)
  ELSE IF NormalizeRaises(remote.obj) THEN fallback_analysis(text, context)
  ELSE Normalized(remote.obj)

(***************************************************************************)
(* State                                                                   *)
(***************************************************************************)
VARIABLES
  client,         \* nlp_processor.client: "None" when construction failed, else "ok"
  is_dnc,         \* borrowers.is_dnc, by borrower id
  call_sessions,  \* the call_sessions rows; a row's id is its index
  call_logs,      \* the call_logs rows (the turn ledger), in insertion order
  ptp_promises,   \* the ptp_promises rows
  dnc_requests,   \* the dnc_requests rows
  callbacks,      \* the callbacks rows
  audit,          \* the audit rows
  workers,        \* by server process: the webhook handler it is running
  greeting_urls,  \* sessions whose outbound greeting URL the provider holds
  continue_urls,  \* the /voice/continue action URLs the provider holds
  greeted,        \* by session id: greeting handlers run for it so far
  deliveries,     \* requests delivered to the handlers so far
  faults,         \* database and provider operations that have failed so far
  h_pc,           \* one call of the analysis on its own: "call" or "returned"
  h_text,         \*   its text
  h_context,      \*   its context
  h_remote,       \*   the outcome of its remote exchange
  h_result,       \*   what it returned
  d_pc,           \* one call of handle_intent on its own: "call" or "returned"
  d_session,      \*   its session_id
  d_borrower,     \*   the id of its borrower_data
  d_analysis,     \*   its analysis
  d_status,       \*   the status it returned
  expired,        \* how many of the first rows of call_logs are older than 90 days
  p_pc,           \* date harness: "idle", "call" or "returned"
  p_today,        \* date harness: datetime.now().date(), in days since a Monday
  p_date_str,     \* date harness: the date_str argument (tokens)
  p_date,         \* date harness: the date returned, in days since the same Monday
  a_pc,           \* amount harness: "idle", "call" or "returned"
  a_text,         \* amount harness: the text argument (characters)
  a_amount,       \* amount harness: the float returned
  in_use          \* connection_pool: connections taken and not given back

vars ==
  <<client, is_dnc, call_sessions, call_logs, ptp_promises, dnc_requests,
    callbacks, audit, workers, greeting_urls, continue_urls, greeted,
    deliveries, faults, h_pc, h_text, h_context, h_remote, h_result,
    d_pc, d_session, d_borrower, d_analysis, d_status, expired,
    p_pc, p_today, p_date_str, p_date, a_pc, a_text, a_amount, in_use>>

db_vars ==
  <<is_dnc, call_sessions, call_logs, ptp_promises, dnc_requests, callbacks, audit>>

h_vars == <<h_pc, h_text, h_context, h_remote, h_result>>

d_vars == <<d_pc, d_session, d_borrower, d_analysis, d_status>>

p_vars == <<p_pc, p_today, p_date_str, p_date>>

a_vars == <<a_pc, a_text, a_amount>>

AmountIdle ==
  /\ a_pc = "idle"
  /\ a_text = <<>>
  /\ a_amount = [units |-> <<>>, hundredths |-> 0]

DatesIdle ==
  /\ p_pc = "idle"
  /\ p_today = 0
  /\ p_date_str = <<>>
  /\ p_date = 0

(***************************************************************************)
(* Bounds and inputs                                                       *)
(***************************************************************************)
\* Tokens of the exhaustively enumerated utterances.
MaxWords == 2
\* Server processes sharing the database.
NumWorkers == 2
\* Sessions created in one run.
MaxSessions == 2
\* Requests delivered to the handlers in one run.
MaxDeliveries == 3
\* Greeting deliveries per session.
MaxGreetings == 2
\* Database and provider operations that fail in one run.
MaxFaults == 1

\* At most this many turns in the ledger of a session the daily cleanup finds.
MaxTurns == 3

Workers == 1..NumWorkers

\* The borrowers table: borrower 1 has a loan row, borrower 2 has none (the
\* LEFT JOIN gives NULL loan columns).
BorrowerIds == {1, 2}

Phone(b) == IF b = 1 THEN "+911" ELSE "+912"

DueAmount(b) == IF b = 1 THEN JNum(5000) ELSE JNull

\* The row of the borrower/loan join.
BorrowerData(b) ==
  "id" :> JNum(b) @@ "language_pref" :> JStr("EN") @@ "due_amount" :> DueAmount(b)

\* context of handle_speech_result
MakeContext(b, state, last_bot_message, turn_number) ==
  "borrower" :> JObj(BorrowerData(b)) @@ "loan" :> JObj(BorrowerData(b)) @@
  "current_state" :> state @@ "last_bot_message" :> last_bot_message @@
  "turn_number" :> JNum(turn_number)

CoreVocabulary ==
  {"I", "will", "pay", "now", "tomorrow", "promise", "dispute", "later",
   "agent", "stop", "calling", "on", "no", "5000"}

ShortTexts == UNION {[1..n -> CoreVocabulary] : n \in 0..MaxWords}

\* One phrase per intent that triggers that intent's patterns only.
TriggerPhrase(i) ==
  CASE i = 1 -> <<"upi", "link">>
    [] i = 2 -> <<"promise", "pay">>
    [] i = 3 -> <<"dispute">>
    [] i = 4 -> <<"wrong", "number">>
    [] i = 5 -> <<"later">>
    [] i = 6 -> <<"hardship">>
    [] i = 7 -> <<"agent">>
    [] i = 8 -> <<"opt", "out">>

\* The phrases of the intents in S, last table entry first.
RECURSIVE SubsetText(_, _)
SubsetText(S, i) ==
  IF i = 0 THEN <<>>
  ELSE (IF i \in S THEN TriggerPhrase(i) ELSE <<>>) \o SubsetText(S, i - 1)

SubsetTexts == {SubsetText(S, 8) : S \in SUBSET (1..8)}

CuratedTexts ==
  {<<"I", "will", "pay", "tomorrow">>,
   <<"stop", "calling", "me">>,
   <<"Pay", "Now", "hardship">>,
   <<"hardship", "pay", "today">>,
   <<"call", "back", "later">>,
   <<"don't", "call", "me">>,
   <<"can't", "afford", "2,500", "rupees">>,
   <<"will", "pay", "5000", "on", "5th", "march">>,
   <<"pay", "next", "week">>,
   <<"hello">>,
   <<"No", "speech", "detected">>}

FallbackTexts == ShortTexts \cup SubsetTexts \cup CuratedTexts

\* The state a webhook URL or a caller of the analysis may carry.
StateInputs == CallState \cup {"verify_identity", "BOGUS"}

HarnessContexts ==
  {MakeContext(b, JStr(st), JText(<<>>), 1) : b \in BorrowerIds, st \in StateInputs}
  \cup {"borrower" :> JObj(BorrowerData(1)) @@ "loan" :> JObj(BorrowerData(1))}

FallbackContexts ==
  {MakeContext(1, JStr(st), JText(<<>>), 1) : st \in StateInputs}
  \cup {"borrower" :> JObj(BorrowerData(1)) @@ "loan" :> JObj(BorrowerData(1))}

NoRemote == [kind |-> "none"]

\* The dicts a remote reply may decode to: every choice of the five required
\* values, with any one key left out, or with further keys.
RemoteComplete ==
  {"intent" :> i @@ "sentiment" :> s @@ "slots" :> sl @@ "reply_text" :> r @@
   "next_state" :> n :
     i \in {JStr("PROMISE_TO_PAY"), JStr("do_not_call"), JStr("BOGUS"), JNull},
     s \in {JStr("negative"), JStr("happy"), JNum(1)},
     sl \in {JObj(EmptyDict), JObj("date" :> JStr("friday")), JNull, JArr(<<>>)},
     r \in {JText(<<"ok">>), JNull},
     n \in {JStr("END_CALL"), JStr("collect_details"), JStr("START"),
            JStr("BOGUS"), JNull}}

Without(d, k) == [x \in DOMAIN d \ {k} |-> d[x]]

RemoteObjects ==
  RemoteComplete
  \cup {Without(d, k) : d \in RemoteComplete, k \in required_fields}
  \cup {d @@ "fallback_used" :> JBool(b) : d \in RemoteComplete, b \in BOOLEAN}

RemoteOutcomes ==
  {[kind |-> k] : k \in {"prompt_missing", "api_error", "no_json", "bad_json"}}
  \cup {[kind |-> "json", obj |-> d] : d \in RemoteObjects}

(***************************************************************************)
(* Initial states                                                          *)
(***************************************************************************)
Idle == [op |-> "none", pc |-> "idle"]

\* The database and the servers before any call.
TelephonyInit ==
  /\ is_dnc = [b \in BorrowerIds |-> FALSE]
  /\ call_sessions = <<>>
  /\ call_logs = <<>>
  /\ ptp_promises = <<>>
  /\ dnc_requests = <<>>
  /\ callbacks = <<>>
  /\ audit = <<>>
  /\ workers = [w \in Workers |-> Idle]
  /\ greeting_urls = {}
  /\ continue_urls = {}
  /\ greeted = <<>>
  /\ deliveries = 0
  /\ faults = 0
  /\ expired = 0
  /\ in_use = 0

HarnessIdle ==
  /\ h_pc = "idle"
  /\ h_text = <<>>
  /\ h_context = EmptyDict
  /\ h_remote = NoRemote
  /\ h_result = EmptyDict

DispatchIdle ==
  /\ d_pc = "idle"
  /\ d_session = 0
  /\ d_borrower = 0
  /\ d_analysis = EmptyDict
  /\ d_status = "none"

telephony_vars ==
  <<is_dnc, call_sessions, call_logs, ptp_promises, dnc_requests, callbacks,
    audit, workers, greeting_urls, continue_urls, greeted, deliveries, faults>>

(***************************************************************************)
(* db.py: the persistence operations                                       *)
(***************************************************************************)
\* The value a column takes when the INSERT does not name it (the schema is
\* not part of the repository).
ColumnDefault == JNull

\* Python truthiness of a value.
Falsy(x) ==
  \/ x.t = "null"
  \/ x.t = "obj" /\ DOMAIN x.v = {}
  \/ x.t = "arr" /\ Len(x.v) = 0
  \/ x.t = "text" /\ x.v = <<>>
  \/ x.t = "str" /\ x.v = ""
  \/ x.t = "num" /\ x.v = 0
  \/ x.t = "bool" /\ ~x.v

\* create_call_session with the direction argument lost.
SessionRowInbound(call_sid, borrower_id, direction) ==
  [call_sid |-> call_sid, borrower_id |-> borrower_id, direction |-> "INBOUND",
   status |-> "INITIATED", current_state |-> ColumnDefault,
   verification_state |-> ColumnDefault]

\* The row create_call_session inserts.
SessionRow(call_sid, borrower_id, direction) ==
  [call_sid |-> call_sid, borrower_id |-> borrower_id, direction |-> direction,
   status |-> "INITIATED", current_state |-> ColumnDefault,
   verification_state |-> ColumnDefault]

\* The row log_call_turn inserts; slots are stored as JSON text, NULL when
\* the value is falsy.
TurnRow(session_id, turn_no, role, text, intent, sentiment, slots) ==
  [call_session_id |-> session_id, turn_no |-> turn_no, role |-> role,
   text |-> text, intent |-> intent, sentiment |-> sentiment,
   slots |-> IF Falsy(slots) THEN JNull ELSE slots]

\* The row log_audit inserts.
AuditRow(entity, entity_id, action) ==
  [entity |-> entity, entity_id |-> entity_id, action |-> action]

\* log_audit takes its cursor before its try block: when the connection
\* gives none (the connection was lost since the caller's commit),
\* conn.cursor() raises and the exception leaves log_audit.
LogAuditRaises(cursor) == ~cursor

\* log_audit with a cursor: the insert may fail; the failure is logged and
\* swallowed.
log_audit(rows, entity, entity_id, action, ok) ==
  IF ok THEN Append(rows, AuditRow(entity, entity_id, action)) ELSE rows

\* update_call_session on the row of session_id, if there is one.
update_call_session(rows, session_id, current_state, verification_state) ==
  [i \in 1..Len(rows) |->
     IF i # session_id THEN rows[i]
     ELSE IF ~Falsy(verification_state)
     THEN [rows[i] EXCEPT !.current_state = current_state,
                          !.verification_state = verification_state]
     ELSE [rows[i] EXCEPT !.current_state = current_state]]

\* The turn numbers of a session's ledger rows.
TurnNumbers(logs, session_id) ==
  {logs[i].turn_no : i \in {j \in 1..Len(logs) : logs[j].call_session_id = session_id}}

\* current_turn with the maximum taken as turn count of all sessions.
CurrentTurnOfAllSessions(logs, session_id) == Len(logs) + 1

\* SELECT MAX(turn_no) ... ; current_turn = (max_turn or 0) + 1
CurrentTurn(logs, session_id) ==
  IF TurnNumbers(logs, session_id) = {} THEN 1
  ELSE Max(TurnNumbers(logs, session_id)) + 1

\* The texts the "last bot message" query may return: a BOT row of the
\* session with the highest turn number, or none.
LastBotMessages(logs, session_id) ==
  LET bots == {j \in 1..Len(logs) :
                 logs[j].call_session_id = session_id /\ logs[j].role = "BOT"}
  IN IF bots = {} THEN {JText(<<>>)}
     ELSE {logs[j].text : j \in {k \in bots : \A m \in bots : logs[m].turn_no <= logs[k].turn_no}}

(***************************************************************************)
(* telephony.py: responses                                                 *)
(***************************************************************************)
Say(text) == [verb |-> "Say", text |-> text]
Hangup == [verb |-> "Hangup"]
Dial == [verb |-> "Dial"]
Gather(url) == [verb |-> "Gather", action |-> url]

\* The callback URL with the state argument lost: every callback carries
\* MAIN_MENU.
ContinueUrlToMainMenu(session_id, borrower_id, state) ==
  [session_id |-> session_id, borrower_id |-> borrower_id, state |-> JStr("MAIN_MENU")]

\* The action URL of a gather: /voice/continue?session_id=&borrower_id=&state=
ContinueUrl(session_id, borrower_id, state) ==
  [session_id |-> session_id, borrower_id |-> borrower_id, state |-> state]

UnknownCallerText == <<"Thank you for calling. I'm sorry, but I don't have your information in our system.">>
DncCallerText == <<"I apologize, but you've requested not to receive calls.">>
NoSpeechText == <<"I didn't hear anything. Please call back when you're ready to speak. Goodbye.">>
IncomingErrorText == <<"I'm experiencing technical difficulties. Please try calling back later. Goodbye.">>
SpeechErrorText == <<"I'm having technical difficulties. Please contact our customer service team.">>
GreetingErrorText == <<"I'm experiencing technical difficulties. Goodbye.">>
CallLaterText == <<"I'll call you back later. Goodbye.">>
HoldText == <<"Please hold while I transfer you.">>
NotHeardText == <<"I didn't hear you. Let me transfer you to an agent.">>

BorrowerName(b) == IF b = 1 THEN "Asha" ELSE "Ravi"

ConsentText(b) ==
  <<"Hello, this call may be recorded for quality and training purposes. Am I speaking with", BorrowerName(b)>>

GreetingText(b) ==
  <<"Hello, this is a call from your loan service provider. This call may be recorded. Am I speaking with",
    BorrowerName(b), "I'm calling regarding your loan account.">>

\* A call reference: a CallSid the provider assigns ("CA" inbound, "CO"
\* outbound), or the placeholder OUTBOUND_{borrower_id}_{timestamp}.
CallSidValue(kind, borrower_id, n) == [kind |-> kind, borrower_id |-> borrower_id, n |-> n]

\* The inbound calls the provider may announce (and announce again): each
\* has its CallSid and its caller's number; the last is from no borrower.
InboundCalls ==
  {[sid |-> CallSidValue("CA", 0, 1), from |-> Phone(1)],
   [sid |-> CallSidValue("CA", 0, 2), from |-> Phone(2)],
   [sid |-> CallSidValue("CA", 0, 3), from |-> "+910"]}

\* The borrower ids an outbound call may be asked for; the last is unknown.
OutboundTargets == BorrowerIds \cup {3}

\* get_borrower_by_phone: the borrower ids with that number.
BorrowersByPhone(phone) == {b \in BorrowerIds : Phone(b) = phone}

\* What the caller may have said: nothing, or an utterance.
SpeechResults ==
  {<<>>, <<"I", "will", "pay", "tomorrow">>, <<"stop", "calling", "me">>}

\* One more utterance for the runs of a single server process.
SingleSpeechResults == SpeechResults \cup {<<"call", "back", "later">>}

\* The outcomes of the remote exchange during a call.
CallRemotes ==
  {[kind |-> "api_error"],
   [kind |-> "json", obj |->
      "intent" :> JStr("do_not_call") @@ "sentiment" :> JStr("negative") @@
      "slots" :> JObj(EmptyDict) @@ "reply_text" :> JText(<<"ok">>) @@
      "next_state" :> JStr("END_CALL")],
   [kind |-> "json", obj |->
      "intent" :> JStr("PROMISE_TO_PAY") @@ "sentiment" :> JStr("happy") @@
      "slots" :> JNull @@ "reply_text" :> JText(<<"ok">>) @@
      "next_state" :> JStr("BOGUS")],
   [kind |-> "json", obj |->
      "intent" :> JStr("TRANSFER_AGENT") @@ "sentiment" :> JStr("negative") @@
      "slots" :> JObj(EmptyDict) @@ "reply_text" :> JText(<<"ok">>) @@
      "next_state" :> JStr("TRANSFER")]}

\* How many of the operations, whose outcomes are given, fail.
Failures(outcomes) == Cardinality({k \in 1..Len(outcomes) : ~outcomes[k]})

Free(w) == workers[w].pc \in {"idle", "done"}

Finished(op, response) == [op |-> op, pc |-> "done", response |-> response]

\* A value the database driver cannot bind to a column.
Unstorable(x) == x.t \in {"obj", "arr"}

DigitValue ==
  "0" :> 0 @@ "1" :> 1 @@ "2" :> 2 @@ "3" :> 3 @@ "4" :> 4 @@
  "5" :> 5 @@ "6" :> 6 @@ "7" :> 7 @@ "8" :> 8 @@ "9" :> 9

RECURSIVE DecimalValue(_)
DecimalValue(cs) ==
  IF cs = <<>> THEN 0
  ELSE 10 * DecimalValue(SubSeq(cs, 1, Len(cs) - 1)) + DigitValue[cs[Len(cs)]]

\* float(x) raises for anything but a number or a numeral.
FloatRaises(x) ==
  ~ \/ x.t = "num"
    \/ /\ x.t = "str"
       /\ x.v \in DOMAIN Spell
       /\ \A k \in 1..Len(Spell[x.v]) : Spell[x.v][k] \in Digits

Float(x) == IF x.t = "num" THEN x ELSE JNum(DecimalValue(Spell[x.v]))

(***************************************************************************)
(* telephony.py: handle_intent                                             *)
(***************************************************************************)
\* The branch of handle_intent's if/elif chain that the intent selects.
DispatchedWrongNumberAsOptOut(intent) ==
  CASE intent = JStr("PROMISE_TO_PAY") -> "promise"
    [] intent \in {JStr("DO_NOT_CALL"), JStr("WRONG_NUMBER")} -> "dnc"
    [] intent = JStr("CALLBACK_LATER") -> "callback"
    [] OTHER -> "none"

Dispatched(intent) ==
  CASE intent = JStr("PROMISE_TO_PAY") -> "promise"
    [] intent = JStr("DO_NOT_CALL") -> "dnc"
    [] intent = JStr("CALLBACK_LATER") -> "callback"
    [] OTHER -> "none"

\* Whether the body of handle_intent raises before it commits; db_ok is
\* whether the database accepts the statements.
HandleIntentRaises(borrower_data, analysis, db_ok) ==
  LET branch == Dispatched(analysis["intent"])
      slots == DictGet(analysis, "slots", JObj(EmptyDict))
  IN CASE branch = "promise" ->
            \/ ~IsObj(slots)
            \/ /\ ~Falsy(DictGet(slots.v, "amount", JNull))
               /\ FloatRaises(DictGet(slots.v, "amount", JNum(0)))
            \/ Unstorable(DictGet(slots.v, "date", JStr("unspecified")))
            \/ ~db_ok
       [] branch = "dnc" ->
            \/ ~IsObj(slots)
            \/ Unstorable(DictGet(slots.v, "reason", JStr("Customer request")))
            \/ ~db_ok
       [] branch = "callback" ->
            \/ ~IsObj(slots)
            \/ Unstorable(DictGet(slots.v, "reason", JStr("Customer requested callback")))
            \/ ~db_ok
       [] OTHER -> ~db_ok

\* The row of ptp_promises the PROMISE_TO_PAY branch inserts.
PromiseRow(session_id, borrower_data, slots) ==
  [borrower_id |-> borrower_data["id"].v, call_session_id |-> session_id,
   promise_date |-> DictGet(slots, "date", JStr("unspecified")),
   amount |-> IF ~Falsy(DictGet(slots, "amount", JNull))
              THEN Float(DictGet(slots, "amount", JNum(0)))
              ELSE borrower_data["due_amount"]]

DncRow(session_id, borrower_data, slots) ==
  [borrower_id |-> borrower_data["id"].v, call_session_id |-> session_id,
   reason |-> DictGet(slots, "reason", JStr("Customer request"))]

\* The callbacks row with the time taken from the date slot.
CallbackRowAtSlotDate(session_id, borrower_data, slots) ==
  [borrower_id |-> borrower_data["id"].v, call_session_id |-> session_id,
   scheduled_at |-> DictGet(slots, "date", JStr("now + 24 hours")),
   reason |-> DictGet(slots, "reason", JStr("Customer requested callback"))]

\* The callbacks row: datetime.now() + timedelta(hours=24), as the text
\* "now + 24 hours".
CallbackRow(session_id, borrower_data, slots) ==
  [borrower_id |-> borrower_data["id"].v, call_session_id |-> session_id,
   scheduled_at |-> JStr("now + 24 hours"),
   reason |-> DictGet(slots, "reason", JStr("Customer requested callback"))]

\* The tables handle_intent writes, as its connection sees them.
DispatchTables ==
  [ptp_promises |-> ptp_promises, is_dnc |-> is_dnc,
   dnc_requests |-> dnc_requests, callbacks |-> callbacks]

\* The tables with the statements executed before the one that raises: of
\* the three branches only DO_NOT_CALL has a statement (the UPDATE of the
\* flag) before its INSERT.
PartialWrites(borrower_data, analysis) ==
  IF Dispatched(analysis["intent"]) = "dnc"
  THEN [DispatchTables EXCEPT !.is_dnc = [is_dnc EXCEPT ![borrower_data["id"].v] = TRUE]]
  ELSE DispatchTables

\* The tables with all statements of the branch executed.
AllWrites(session_id, borrower_data, analysis) ==
  LET branch == Dispatched(analysis["intent"])
      slots == DictGet(analysis, "slots", JObj(EmptyDict)).v
  IN CASE branch = "promise" ->
            [DispatchTables EXCEPT
               !.ptp_promises = Append(ptp_promises, PromiseRow(session_id, borrower_data, slots))]
       [] branch = "dnc" ->
            [DispatchTables EXCEPT
               !.is_dnc = [is_dnc EXCEPT ![borrower_data["id"].v] = TRUE],
               !.dnc_requests = Append(dnc_requests, DncRow(session_id, borrower_data, slots))]
       [] branch = "callback" ->
            [DispatchTables EXCEPT
               !.callbacks = Append(callbacks, CallbackRow(session_id, borrower_data, slots))]
       [] OTHER -> DispatchTables

\* A rollback that keeps what the statements before the failing one wrote
\* (a connection with autocommit on).
RollbackKeepingWrites(before, partial) == partial

\* conn.rollback() on a connection with autocommit off: nothing written
\* since the last commit stays.
Rollback(before, partial) == before

\* handle_intent: one transaction, committed as a whole or rolled back.
handle_intent(session_id, borrower_data, analysis, db_ok) ==
  LET tables == IF HandleIntentRaises(borrower_data, analysis, db_ok)
                THEN Rollback(DispatchTables, PartialWrites(borrower_data, analysis))
                ELSE AllWrites(session_id, borrower_data, analysis)
  IN [status |-> IF HandleIntentRaises(borrower_data, analysis, db_ok)
                 THEN "error" ELSE "success",
      ptp_promises |-> tables.ptp_promises, is_dnc |-> tables.is_dnc,
      dnc_requests |-> tables.dnc_requests, callbacks |-> tables.callbacks]

(***************************************************************************)
(* telephony.py: the webhook handlers.  A server process runs one handler  *)
(* at a time (no handler yields the event loop); processes share the       *)
(* database, where every statement commits on its own.                     *)
(***************************************************************************)
\* settings.max_call_attempts
max_call_attempts == 3

\* The loans table is not written by the handlers: borrower 1 has a loan with
\* status OVERDUE and days_past_due > 0, borrower 2 has no loan.
LoanOverdue(b) == DueAmount(b) # JNull

\* COUNT(cs.id) of the sessions of the borrower created within the last day
\* (every session of a run is).
CallCount(b) ==
  Cardinality({i \in 1..Len(call_sessions) : call_sessions[i].borrower_id = b})

\* The campaign read without its do-not-call condition.
get_overdue_borrowers_with_flagged ==
  {b \in BorrowerIds : LoanOverdue(b) /\ CallCount(b) < max_call_attempts}

\* get_overdue_borrowers(conn, limit): the ids of the rows it returns (the
\* limit is above the number of borrowers).
get_overdue_borrowers ==
  {b \in BorrowerIds : LoanOverdue(b) /\ ~is_dnc[b] /\ CallCount(b) < max_call_attempts}

\* The verbs of a response, in order.
Verbs(response) == [k \in 1..Len(response) |-> response[k].verb]

\* pool_size of connection_pool
pool_size == 10

\* Whether the handler reached its conn.close(): the statement stands only
\* at the end of each try block, before the return of the complete response
\* (or of status success); the early returns and the except branches have
\* none.
ClosesConnection(done) ==
  CASE done.op = "handle_speech_result" ->
         done.response # <<Say(JText(SpeechErrorText)), Hangup>>
    [] done.op = "initiate_outbound_call" -> done.response[1].status = 200
    [] OTHER -> Verbs(done.response) = <<"Say", "Gather", "Say", "Hangup">>

\* The pool during a step of process w: a handler that starts takes a
\* connection with get_db_connection(), a handler that ends gives it back if
\* it reached conn.close().
PoolAccount(w) ==
  LET starts == Free(w)
      ends == workers'[w].pc = "done"
  IN /\ starts => in_use < pool_size
     /\ in_use' = in_use + (IF starts THEN 1 ELSE 0)
                  - (IF ends /\ ClosesConnection(workers'[w])
                     THEN 1 ELSE 0)

\* borrower.get('is_dnc') with the test lost: nobody is taken to be flagged.
OnDncListNever(b) == FALSE

\* borrower.get('is_dnc') of the borrower row just read.
OnDncList(b) == is_dnc[b]

\* POST /voice/incoming
handle_incoming_call(w, call) ==
  /\ Free(w)
  /\ \/ /\ BorrowersByPhone(call.from) = {}
        /\ workers' = [workers EXCEPT ![w] =
             Finished("handle_incoming_call", <<Say(JText(UnknownCallerText)), Hangup>>)]
        /\ UNCHANGED <<db_vars, continue_urls, greeted, faults>>
     \/ \E b \in BorrowersByPhone(call.from) :
          /\ OnDncList(b)
          /\ workers' = [workers EXCEPT ![w] =
               Finished("handle_incoming_call", <<Say(JText(DncCallerText)), Hangup>>)]
          /\ UNCHANGED <<db_vars, continue_urls, greeted, faults>>
     \/ \E b \in BorrowersByPhone(call.from), created, cursor, audited, logged \in BOOLEAN :
          LET session_id == Len(call_sessions) + 1
              url == ContinueUrl(session_id, b, JStr("VERIFY_IDENTITY"))
              twiml == <<Say(JText(ConsentText(b))), Gather(url), Say(JText(NoSpeechText)), Hangup>>
          IN /\ ~OnDncList(b)
             /\ Len(call_sessions) < MaxSessions
             /\ created \/ (cursor /\ audited /\ logged)
             /\ cursor \/ (audited /\ logged)
             /\ faults + Failures(<<created, cursor, audited, logged>>) <= MaxFaults
             /\ faults' = faults + Failures(<<created, cursor, audited, logged>>)
             /\ IF ~created
                THEN /\ workers' = [workers EXCEPT ![w] =
                          Finished("handle_incoming_call", <<Say(JText(IncomingErrorText)), Hangup>>)]
                     /\ UNCHANGED <<db_vars, continue_urls, greeted>>
                ELSE IF LogAuditRaises(cursor)
                THEN /\ call_sessions' = Append(call_sessions, SessionRow(call.sid, b, "INBOUND"))
                     /\ greeted' = Append(greeted, 1)
                     /\ workers' = [workers EXCEPT ![w] =
                          Finished("handle_incoming_call", <<Say(JText(IncomingErrorText)), Hangup>>)]
                     /\ UNCHANGED <<is_dnc, call_logs, ptp_promises, dnc_requests, callbacks,
                                    audit, continue_urls>>
                ELSE /\ call_sessions' = Append(call_sessions, SessionRow(call.sid, b, "INBOUND"))
                     /\ audit' = log_audit(audit, "call_sessions", session_id, "CREATED", audited)
                     /\ greeted' = Append(greeted, 1)
                     /\ continue_urls' = continue_urls \cup {url}
                     /\ call_logs' =
                          IF logged
                          THEN Append(call_logs, TurnRow(session_id, 1, "BOT",
                                 JText(ConsentText(b)), JNull, JNull, JObj(EmptyDict)))
                          ELSE call_logs
                     /\ workers' = [workers EXCEPT ![w] =
                          Finished("handle_incoming_call",
                            IF logged THEN twiml
                            ELSE twiml \o <<Say(JText(IncomingErrorText)), Hangup>>)]
                     /\ UNCHANGED <<is_dnc, ptp_promises, dnc_requests, callbacks>>
  /\ deliveries < MaxDeliveries
  /\ deliveries' = deliveries + 1
  /\ PoolAccount(w)
  /\ UNCHANGED <<client, greeting_urls, h_vars, d_vars, expired, p_vars, a_vars>>

\* The answer of the except branch of initiate_outbound_call: status 500 with
\* the text of the exception caught, which for the two HTTPExceptions raised
\* in the try block is their detail.
OutboundError(detail) == <<[status |-> 500, detail |-> detail]>>

\* POST /voice/outbound
initiate_outbound_call(w, borrower_id) ==
  /\ Free(w)
  /\ \/ /\ borrower_id \notin BorrowerIds
        /\ workers' = [workers EXCEPT ![w] = Finished("initiate_outbound_call", OutboundError("Borrower not found"))]
        /\ UNCHANGED <<db_vars, greeting_urls, greeted, faults>>
     \/ /\ borrower_id \in BorrowerIds
        /\ OnDncList(borrower_id)
        /\ workers' = [workers EXCEPT ![w] = Finished("initiate_outbound_call", OutboundError("Borrower is on do-not-call list"))]
        /\ UNCHANGED <<db_vars, greeting_urls, greeted, faults>>
     \/ \E created, cursor, audited, placed, updated \in BOOLEAN :
          LET session_id == Len(call_sessions) + 1
              \* the timestamp of the placeholder: a clock that has advanced
              \* since the previous session was created
              placeholder == CallSidValue("OUTBOUND", borrower_id, session_id)
              call_sid == CallSidValue("CO", 0, session_id)
              row == SessionRow(placeholder, borrower_id, "OUTBOUND")
          IN /\ borrower_id \in BorrowerIds
             /\ ~OnDncList(borrower_id)
             /\ Len(call_sessions) < MaxSessions
             /\ created \/ (cursor /\ audited /\ placed /\ updated)
             /\ cursor \/ (audited /\ placed /\ updated)
             /\ placed \/ updated
             /\ faults + Failures(<<created, cursor, audited, placed, updated>>) <= MaxFaults
             /\ faults' = faults + Failures(<<created, cursor, audited, placed, updated>>)
             /\ IF ~created
                THEN /\ workers' = [workers EXCEPT ![w] =
                          Finished("initiate_outbound_call", OutboundError("database"))]
                     /\ UNCHANGED <<db_vars, greeting_urls, greeted>>
                ELSE IF LogAuditRaises(cursor)
                THEN /\ call_sessions' = Append(call_sessions, row)
                     /\ greeted' = Append(greeted, 0)
                     /\ workers' = [workers EXCEPT ![w] =
                          Finished("initiate_outbound_call", OutboundError("database"))]
                     /\ UNCHANGED <<is_dnc, call_logs, ptp_promises, dnc_requests, callbacks,
                                    audit, greeting_urls>>
                ELSE /\ call_sessions' = Append(call_sessions,
                          IF placed /\ updated THEN [row EXCEPT !.call_sid = call_sid] ELSE row)
                     /\ audit' = log_audit(audit, "call_sessions", session_id, "CREATED", audited)
                     /\ greeted' = Append(greeted, 0)
                     /\ greeting_urls' =
                          IF placed
                          THEN greeting_urls \cup {[session_id |-> session_id, borrower_id |-> borrower_id]}
                          ELSE greeting_urls
                     /\ workers' = [workers EXCEPT ![w] =
                          Finished("initiate_outbound_call",
                            IF placed /\ updated
                            THEN <<[status |-> 200, call_sid |-> call_sid, session_id |-> session_id]>>
                            ELSE OutboundError(IF placed THEN "database" ELSE "provider"))]
                     /\ UNCHANGED <<is_dnc, call_logs, ptp_promises, dnc_requests, callbacks>>
  /\ deliveries < MaxDeliveries
  /\ deliveries' = deliveries + 1
  /\ PoolAccount(w)
  /\ UNCHANGED <<client, continue_urls, h_vars, d_vars, expired, p_vars, a_vars>>

\* POST /voice/outbound/greeting, for a URL given to the provider; the
\* provider may fetch it again.
handle_outbound_greeting(w, u) ==
  /\ Free(w)
  /\ u \in greeting_urls
  /\ greeted[u.session_id] < MaxGreetings
  /\ \E logged \in BOOLEAN :
       LET url == ContinueUrl(u.session_id, u.borrower_id, JStr("VERIFY_IDENTITY"))
           twiml == <<Say(JText(GreetingText(u.borrower_id))), Gather(url),
                      Say(JText(CallLaterText)), Hangup>>
       IN /\ faults + Failures(<<logged>>) <= MaxFaults
          /\ faults' = faults + Failures(<<logged>>)
          /\ call_logs' =
               IF logged
               THEN Append(call_logs, TurnRow(u.session_id, 1, "BOT",
                      JText(GreetingText(u.borrower_id)), JNull, JNull, JObj(EmptyDict)))
               ELSE call_logs
          /\ workers' = [workers EXCEPT ![w] =
               Finished("handle_outbound_greeting",
                 IF logged THEN twiml ELSE twiml \o <<Say(JText(GreetingErrorText)), Hangup>>)]
          /\ continue_urls' = continue_urls \cup {url}
  /\ greeted' = [greeted EXCEPT ![u.session_id] = @ + 1]
  /\ deliveries < MaxDeliveries
  /\ deliveries' = deliveries + 1
  /\ PoolAccount(w)
  /\ UNCHANGED <<client, is_dnc, call_sessions, ptp_promises, dnc_requests, callbacks,
                 audit, greeting_urls, h_vars, d_vars, expired, p_vars, a_vars>>

\* The response of handle_speech_result's except clause.
\* The except branch with response.hangup() lost.
SpeechFailedWithoutHangup == Finished("handle_speech_result", <<Say(JText(SpeechErrorText))>>)

SpeechFailed == Finished("handle_speech_result", <<Say(JText(SpeechErrorText)), Hangup>>)

\* The response handle_speech_result builds from the analysis.
SpeechResponse(session_id, borrower_id, analysis) ==
  <<Say(analysis["reply_text"])>> \o
  (IF analysis["next_state"] = JStr("END_CALL") THEN <<Hangup>>
   ELSE IF analysis["next_state"] = JStr("TRANSFER") THEN <<Say(JText(HoldText)), Dial>>
   ELSE <<Gather(ContinueUrl(session_id, borrower_id, analysis["next_state"])),
          Say(JText(NotHeardText)), Hangup>>)

\* The state query parameter of a request to /voice/continue: the handler
\* takes it as a str from whoever posts, so it is the state of the URL given
\* to the provider or any other text.
UrlStates(u) == {u.state, JStr("BOGUS")}

\* POST /voice/continue for a URL given to the provider in a gather (the
\* provider may post to it again): the handler's reads, up to the caller's
\* turn being written.
SpeechRead(w, u, SpeechResult) ==
  /\ Free(w)
  /\ u \in continue_urls
  /\ deliveries < MaxDeliveries
  /\ deliveries' = deliveries + 1
  /\ \E last_bot_message \in LastBotMessages(call_logs, u.session_id),
        state \in UrlStates(u) :
       workers' = [workers EXCEPT ![w] =
         [op |-> "handle_speech_result", pc |-> "log_caller",
          session_id |-> u.session_id, borrower_id |-> u.borrower_id, state |-> state,
          current_turn |-> CurrentTurn(call_logs, u.session_id),
          last_bot_message |-> last_bot_message,
          speech_text |-> IF SpeechResult = <<>> THEN <<"No", "speech", "detected">>
                          ELSE SpeechResult]]
  /\ PoolAccount(w)
  /\ UNCHANGED <<client, db_vars, greeting_urls, continue_urls, greeted, faults, h_vars, d_vars, expired, p_vars, a_vars>>

\* log_call_turn(conn, session_id, current_turn, 'CALLER', speech_text, ...)
SpeechLogCaller(w) ==
  /\ workers[w].pc = "log_caller"
  /\ \E logged \in BOOLEAN :
       /\ faults + Failures(<<logged>>) <= MaxFaults
       /\ faults' = faults + Failures(<<logged>>)
       /\ IF logged
          THEN /\ call_logs' = Append(call_logs,
                    TurnRow(workers[w].session_id, workers[w].current_turn, "CALLER",
                            JText(workers[w].speech_text), JNull, JNull,
                            JObj("confidence" :> JNull)))
               /\ workers' = [workers EXCEPT ![w].pc = "analyze"]
          ELSE /\ workers' = [workers EXCEPT ![w] = SpeechFailed]
               /\ UNCHANGED call_logs
  /\ PoolAccount(w)
  /\ UNCHANGED <<client, is_dnc, call_sessions, ptp_promises, dnc_requests, callbacks,
                 audit, greeting_urls, continue_urls, greeted, deliveries, h_vars, d_vars, expired, p_vars, a_vars>>

\* analysis = await nlp_processor.analyze_utterance(speech_text, context)
SpeechAnalyze(w) ==
  /\ workers[w].pc = "analyze"
  /\ \E remote \in CallRemotes :
       workers' = [workers EXCEPT ![w] =
         [op |-> "handle_speech_result", pc |-> "log_bot",
          session_id |-> workers[w].session_id, borrower_id |-> workers[w].borrower_id,
          current_turn |-> workers[w].current_turn,
          analysis |-> analyze_utterance(client, workers[w].speech_text,
                         MakeContext(workers[w].borrower_id, workers[w].state,
                                     workers[w].last_bot_message, workers[w].current_turn),
                         remote)]]
  /\ PoolAccount(w)
  /\ UNCHANGED <<client, db_vars, greeting_urls, continue_urls, greeted, deliveries, faults, h_vars, d_vars, expired, p_vars, a_vars>>

\* log_call_turn(conn, session_id, current_turn + 1, 'BOT', ...)
SpeechLogBot(w) ==
  /\ workers[w].pc = "log_bot"
  /\ \E db_ok \in BOOLEAN :
       LET analysis == workers[w].analysis
       IN /\ faults + Failures(<<db_ok>>) <= MaxFaults
          /\ faults' = faults + Failures(<<db_ok>>)
          /\ IF db_ok /\ ~Unstorable(analysis["reply_text"])
             THEN /\ call_logs' = Append(call_logs,
                       TurnRow(workers[w].session_id, workers[w].current_turn + 1, "BOT",
                               analysis["reply_text"], analysis["intent"],
                               analysis["sentiment"], analysis["slots"]))
                  /\ workers' = [workers EXCEPT ![w].pc = "intent"]
             ELSE /\ workers' = [workers EXCEPT ![w] = SpeechFailed]
                  /\ UNCHANGED call_logs
  /\ PoolAccount(w)
  /\ UNCHANGED <<client, is_dnc, call_sessions, ptp_promises, dnc_requests, callbacks,
                 audit, greeting_urls, continue_urls, greeted, deliveries, h_vars, d_vars, expired, p_vars, a_vars>>

\* Whether handle_speech_result abandons the turn for the result of
\* handle_intent: the handler binds the result to next_action and never reads
\* it, so the turn goes on whatever the status.
AbortsTurnOnDispatchError(next_action) == next_action.status = "error"

AbortsTurn(next_action) == FALSE

\* A handler that calls the dispatcher only once the identity is verified.
DispatchRunsAfterVerification(analysis) ==
  analysis["next_state"] # JStr("VERIFY_IDENTITY")

\* Whether handle_speech_result calls handle_intent for the turn: the call
\* stands in the handler under no condition.
DispatchRuns(analysis) == TRUE

\* next_action = await handle_intent(conn, session_id, borrower_data, analysis)
SpeechIntent(w) ==
  /\ workers[w].pc = "intent"
  /\ \E db_ok \in BOOLEAN :
       LET done == IF DispatchRuns(workers[w].analysis)
                   THEN handle_intent(workers[w].session_id,
                                      BorrowerData(workers[w].borrower_id),
                                      workers[w].analysis, db_ok)
                   ELSE [status |-> IF db_ok THEN "success" ELSE "error",
                         ptp_promises |-> ptp_promises, is_dnc |-> is_dnc,
                         dnc_requests |-> dnc_requests, callbacks |-> callbacks]
       IN /\ faults + Failures(<<db_ok>>) <= MaxFaults
          /\ faults' = faults + Failures(<<db_ok>>)
          /\ ptp_promises' = done.ptp_promises
          /\ is_dnc' = done.is_dnc
          /\ dnc_requests' = done.dnc_requests
          /\ callbacks' = done.callbacks
          /\ workers' = [workers EXCEPT ![w] =
                IF AbortsTurn([status |-> done.status]) THEN SpeechFailed
                ELSE [op |-> "handle_speech_result", pc |-> "update",
                      session_id |-> workers[w].session_id,
                      borrower_id |-> workers[w].borrower_id,
                      current_turn |-> workers[w].current_turn,
                      analysis |-> workers[w].analysis,
                      next_action |-> [status |-> done.status]]]
  /\ PoolAccount(w)
  /\ UNCHANGED <<client, call_sessions, call_logs, audit, greeting_urls, continue_urls,
                 greeted, deliveries, h_vars, d_vars, expired, p_vars, a_vars>>

\* update_call_session(...) and the response
SpeechUpdate(w) ==
  /\ workers[w].pc = "update"
  /\ \E db_ok \in BOOLEAN :
       LET analysis == workers[w].analysis
           twiml == SpeechResponse(workers[w].session_id, workers[w].borrower_id, analysis)
       IN /\ faults + Failures(<<db_ok>>) <= MaxFaults
          /\ faults' = faults + Failures(<<db_ok>>)
          /\ IF db_ok /\ ~Unstorable(analysis["next_state"])
             THEN /\ call_sessions' = update_call_session(call_sessions, workers[w].session_id,
                       analysis["next_state"],
                       DictGet(analysis, "verification_state", JStr("PENDING")))
                  /\ workers' = [workers EXCEPT ![w] = Finished("handle_speech_result", twiml)]
                  /\ continue_urls' = continue_urls \cup
                       {twiml[k].action : k \in {j \in 1..Len(twiml) : twiml[j].verb = "Gather"}}
             ELSE /\ workers' = [workers EXCEPT ![w] = SpeechFailed]
                  /\ UNCHANGED <<call_sessions, continue_urls>>
  /\ PoolAccount(w)
  /\ UNCHANGED <<client, is_dnc, call_logs, ptp_promises, dnc_requests, callbacks, audit,
                 greeting_urls, greeted, deliveries, h_vars, d_vars, expired, p_vars, a_vars>>

(***************************************************************************)
(* The service: server processes sharing one database                      *)
(***************************************************************************)
Init ==
  /\ client \in {"None", "ok"}
  /\ TelephonyInit
  /\ HarnessIdle
  /\ DispatchIdle
  /\ DatesIdle
  /\ AmountIdle

\* The requests process w may take, the callers saying one of the utterances,
\* and the steps of the handler it is running.
HandlersOn(w, utterances) ==
  \/ \E call \in InboundCalls : handle_incoming_call(w, call)
  \/ \E borrower_id \in OutboundTargets : initiate_outbound_call(w, borrower_id)
  \/ \E u \in greeting_urls : handle_outbound_greeting(w, u)
  \/ \E u \in continue_urls, SpeechResult \in utterances : SpeechRead(w, u, SpeechResult)
  \/ SpeechLogCaller(w)
  \/ SpeechAnalyze(w)
  \/ SpeechLogBot(w)
  \/ SpeechIntent(w)
  \/ SpeechUpdate(w)

Handlers(w) == HandlersOn(w, SpeechResults)

\* Several server processes behind one number.  A process keeps nothing
\* between two requests, so which free process takes a request makes no
\* difference: the free process with the lowest number takes it.
Next ==
  \E w \in Workers :
    /\ Free(w) => \A v \in Workers : v < w => ~Free(v)
    /\ Handlers(w)

Spec == Init /\ [][Next]_vars

\* One server process, as app.py starts it: handlers never overlap.
NextSingle == HandlersOn(1, SingleSpeechResults)

SpecSingle == Init /\ [][NextSingle]_vars

(***************************************************************************)
(* Properties of the turn ledger and the sessions                          *)
(***************************************************************************)
Sessions == 1..Len(call_sessions)

\* The ledger rows of a session, in insertion order.
Ledger(session_id) ==
  SelectSeq(call_logs, LAMBDA row : row.call_session_id = session_id)

\* No two rows of the session's ledger carry the same turn number, and the
\* turn numbers are 1..N.
Numbered(session_id) ==
  LET ledger == Ledger(session_id)
  IN /\ \A i, j \in 1..Len(ledger) : ledger[i].turn_no = ledger[j].turn_no => i = j
     /\ {ledger[i].turn_no : i \in 1..Len(ledger)} = 1..Len(ledger)

\* C1: with handle_speech_result handlers of one session running at the same
\* time in several server processes, under every interleaving of their reads
\* of MAX(turn_no) and their inserts, no two turns of a session that was
\* greeted once carry the same turn number and its turn numbers are 1..N.
C1_ConcurrentTurnsNumbered ==
  \A s \in Sessions : greeted[s] <= 1 => Numbered(s)

\* C2: after one greeting and any number of handle_speech_result invocations
\* that do not overlap, each completing or aborting at any step, the turn
\* numbers of the session's ledger, in the order written, are 1, 2, ..., N.
C2_SequentialTurnsGapFree ==
  \A s \in Sessions :
    greeted[s] = 1 => \A k \in 1..Len(Ledger(s)) : Ledger(s)[k].turn_no = k

\* A session greeted once whose ledger holds the caller turn of a cycle that
\* aborted, followed by the caller turn of the next cycle.
C2_Witness ==
  \E s \in Sessions :
    /\ greeted[s] = 1
    /\ Len(Ledger(s)) >= 3
    /\ Ledger(s)[1].role = "BOT"
    /\ \E k \in 2..Len(Ledger(s)) :
         Ledger(s)[k].role = "CALLER" /\ Ledger(s)[k - 1].role = "CALLER"

\* C3: a greeting delivered again for a session (handle_outbound_greeting
\* called again with the same session_id) leaves at most one turn numbered 1
\* in the session's ledger.
C3_OneFirstTurn ==
  \A s \in Sessions :
    Cardinality({k \in 1..Len(Ledger(s)) : Ledger(s)[k].turn_no = 1}) <= 1

\* C4: after any handle_incoming_call and initiate_outbound_call
\* invocations, a CallSid announced again included, no two sessions have the
\* same call reference.
C4_OneSessionPerCall ==
  \A s1, s2 \in Sessions :
    call_sessions[s1].call_sid = call_sessions[s2].call_sid => s1 = s2

(***************************************************************************)
(* The analysis on its own                                                 *)
(***************************************************************************)
NLPTexts ==
  {<<"I", "will", "pay", "tomorrow">>, <<"stop", "calling", "me">>, <<"hello">>}

NLPContexts ==
  {MakeContext(b, JStr(st), JText(<<>>), 1) :
     b \in BorrowerIds, st \in {"VERIFY_IDENTITY", "MAIN_MENU"}}
  \cup {"borrower" :> JObj(BorrowerData(1)) @@ "loan" :> JObj(BorrowerData(1))}

\* Any text and context handed to the rule-based fallback.
InitFallback ==
  /\ TelephonyInit
  /\ client = "None"
  /\ h_pc = "call"
  /\ h_text \in FallbackTexts
  /\ h_context \in FallbackContexts
  /\ h_remote = NoRemote
  /\ h_result = EmptyDict
  /\ DispatchIdle
  /\ DatesIdle
  /\ AmountIdle

FallbackCall ==
  /\ h_pc = "call"
  /\ h_result' = fallback_analysis(h_text, h_context)
  /\ h_pc' = "returned"
  /\ UNCHANGED <<client, telephony_vars, h_text, h_context, h_remote, d_vars, expired, p_vars, a_vars, in_use>>

NextFallback == FallbackCall

SpecFallback == InitFallback /\ [][NextFallback]_vars

\* Any text and context handed to the facade, of a processor with or without
\* a client.
InitNLP ==
  /\ TelephonyInit
  /\ client \in {"None", "ok"}
  /\ h_pc = "call"
  /\ h_text \in NLPTexts
  /\ h_context \in NLPContexts
  /\ h_remote = NoRemote
  /\ h_result = EmptyDict
  /\ DispatchIdle
  /\ DatesIdle
  /\ AmountIdle

\* analyze_utterance on a processor without a client: no remote exchange.
AnalyzeNotInitialized ==
  /\ h_pc = "call"
  /\ client = "None"
  /\ h_result' = analyze_utterance(client, h_text, h_context, NoRemote)
  /\ h_pc' = "returned"
  /\ UNCHANGED <<client, telephony_vars, h_text, h_context, h_remote, d_vars, expired, p_vars, a_vars, in_use>>

\* analyze_utterance on a processor with a client, for each outcome of the
\* remote exchange.
AnalyzeRemote ==
  /\ h_pc = "call"
  /\ client = "ok"
  /\ \E remote \in RemoteOutcomes :
       /\ h_remote' = remote
       /\ h_result' = analyze_utterance(client, h_text, h_context, remote)
  /\ h_pc' = "returned"
  /\ UNCHANGED <<client, telephony_vars, h_text, h_context, d_vars, expired, p_vars, a_vars, in_use>>

NextNLP == AnalyzeNotInitialized \/ AnalyzeRemote

SpecNLP == InitNLP /\ [][NextNLP]_vars

(***************************************************************************)
(* The dispatcher on its own                                               *)
(***************************************************************************)
\* The slots an analysis may carry: what the fallback extracts (numerals,
\* date words) and what a remote reply may hold under the key (any JSON
\* value).
DispatchSlots ==
  {JObj(EmptyDict),
   JObj("reason" :> JText(<<"busy">>)),
   JObj("reason" :> JNull),
   JObj("reason" :> JObj(EmptyDict)),
   JObj("date" :> JStr("friday")),
   JObj("date" :> JStr("friday") @@ "reason" :> JText(<<"busy">>)),
   JObj("amount" :> JStr("2500")),
   JObj("amount" :> JNum(2500) @@ "date" :> JStr("friday")),
   JObj("amount" :> JNum(0)),
   JObj("amount" :> JStr("five thousand")),
   JObj("amount" :> JStr("five thousand") @@ "date" :> JStr("friday")),
   JNull,
   JArr(<<>>)}

\* The analyses handle_intent may be given: any intent of the enumeration
\* with any of the slots.
DispatchAnalyses ==
  {"intent" :> JStr(i) @@ "sentiment" :> JStr("NEUTRAL") @@ "slots" :> sl @@
   "reply_text" :> JText(<<"ok">>) @@ "next_state" :> JStr("MAIN_MENU") :
     i \in Intent, sl \in DispatchSlots}

\* A turn of an inbound session at the call of handle_intent: the greeting,
\* the caller's turn and the bot's turn are in the ledger.
InitDispatch ==
  /\ client = "ok"
  /\ d_pc = "call"
  /\ d_session = 1
  /\ d_borrower \in BorrowerIds
  /\ d_analysis \in DispatchAnalyses
  /\ d_status = "none"
  /\ is_dnc \in [BorrowerIds -> BOOLEAN]
  /\ call_sessions = <<SessionRow(CallSidValue("CA", 0, d_borrower), d_borrower, "INBOUND")>>
  /\ call_logs =
       <<TurnRow(1, 1, "BOT", JText(ConsentText(d_borrower)), JNull, JNull, JObj(EmptyDict)),
         TurnRow(1, 2, "CALLER", JText(<<"hello">>), JNull, JNull,
                 JObj("confidence" :> JNull)),
         TurnRow(1, 3, "BOT", d_analysis["reply_text"], d_analysis["intent"],
                 d_analysis["sentiment"], d_analysis["slots"])>>
  /\ ptp_promises = <<>>
  /\ dnc_requests = <<>>
  /\ callbacks = <<>>
  /\ audit = <<AuditRow("call_sessions", 1, "CREATED")>>
  /\ workers = [w \in Workers |-> Idle]
  /\ greeting_urls = {}
  /\ continue_urls = {ContinueUrl(1, d_borrower, JStr("VERIFY_IDENTITY"))}
  /\ greeted = <<1>>
  /\ deliveries = 0
  /\ faults = 0
  /\ expired = 0
  /\ in_use = 0
  /\ DatesIdle
  /\ AmountIdle
  /\ HarnessIdle

\* handle_intent(conn, session_id, borrower_data, analysis), the database
\* accepting its statements or not.
Dispatch ==
  /\ d_pc = "call"
  /\ \E db_ok \in BOOLEAN :
       LET done == handle_intent(d_session, BorrowerData(d_borrower), d_analysis, db_ok)
       IN /\ faults + Failures(<<db_ok>>) <= MaxFaults
          /\ faults' = faults + Failures(<<db_ok>>)
          /\ ptp_promises' = done.ptp_promises
          /\ is_dnc' = done.is_dnc
          /\ dnc_requests' = done.dnc_requests
          /\ callbacks' = done.callbacks
          /\ d_status' = done.status
  /\ d_pc' = "returned"
  /\ UNCHANGED <<client, call_sessions, call_logs, audit, workers, greeting_urls,
                 continue_urls, greeted, deliveries, h_vars, d_session, d_borrower,
                 d_analysis, expired, p_vars, a_vars, in_use>>

NextDispatch == Dispatch

SpecDispatch == InitDispatch /\ [][NextDispatch]_vars

(***************************************************************************)
(* scheduler.py: the daily cleanup on its own                              *)
(***************************************************************************)
\* The ledger of a session after n turns: the greeting and then caller and
\* bot turns in alternation.
CleanupTurns(session_id, n) ==
  [k \in 1..n |->
     TurnRow(session_id, k, IF k % 2 = 1 THEN "BOT" ELSE "CALLER",
             JText(<<"ok">>), JNull, JNull, JObj(EmptyDict))]

\* The ledgers the cleanup may find: the turns of an earlier session followed
\* by the turns of a later one.
CleanupLedgers ==
  {CleanupTurns(1, n) \o CleanupTurns(2, m) : n \in 1..MaxTurns, m \in 0..MaxTurns}

InitCleanup ==
  /\ client = "ok"
  /\ is_dnc = [b \in BorrowerIds |-> FALSE]
  /\ call_sessions =
       <<SessionRow(CallSidValue("CA", 0, 1), 1, "INBOUND"),
         SessionRow(CallSidValue("CA", 0, 2), 2, "INBOUND")>>
  /\ call_logs \in CleanupLedgers
  /\ ptp_promises = <<>>
  /\ dnc_requests = <<>>
  /\ callbacks = <<>>
  /\ audit = <<AuditRow("call_sessions", 1, "CREATED"), AuditRow("call_sessions", 2, "CREATED")>>
  /\ workers = [w \in Workers |-> Idle]
  /\ greeting_urls = {}
  /\ continue_urls = {}
  /\ greeted = <<1, 1>>
  /\ deliveries = 0
  /\ faults = 0
  /\ expired = 0
  /\ in_use = 0
  /\ DatesIdle
  /\ AmountIdle
  /\ HarnessIdle
  /\ DispatchIdle

\* Time passes: more of the oldest rows of call_logs are now older than 90
\* days.
NinetyDaysPass ==
  /\ \E n \in (expired + 1)..Len(call_logs) : expired' = n
  /\ UNCHANGED <<client, telephony_vars, h_vars, d_vars, p_vars, a_vars, in_use>>

\* daily_cleanup: DELETE FROM call_logs WHERE created_at < NOW() - 90 days,
\* committed together with the updates of loans and of the status of
\* ptp_promises, two tables and a column of which the handlers read and write
\* nothing; when a statement or the commit fails nothing is committed.
daily_cleanup ==
  /\ \E committed \in BOOLEAN :
       /\ faults + Failures(<<committed>>) <= MaxFaults
       /\ faults' = faults + Failures(<<committed>>)
       /\ call_logs' = IF committed THEN SubSeq(call_logs, expired + 1, Len(call_logs))
                       ELSE call_logs
       /\ expired' = IF committed THEN 0 ELSE expired
  /\ UNCHANGED <<client, is_dnc, call_sessions, ptp_promises, dnc_requests, callbacks,
                 audit, workers, greeting_urls, continue_urls, greeted, deliveries,
                 h_vars, d_vars, p_vars, a_vars, in_use>>

NextCleanup == NinetyDaysPass \/ daily_cleanup

SpecCleanup == InitCleanup /\ [][NextCleanup]_vars

(***************************************************************************)
(* db.py: parse_promise_date on its own                                    *)
(***************************************************************************)
\* The days 'today' is drawn from, counted from a Monday: two weeks.
MaxToday == 13

\* date.weekday(): Monday is 0 and Sunday is 6 (day 0 is a Monday).
weekday(d) == d % 7

\* needle in date_str_lower
InStr(needle, date_str_lower) == Contains(Chars(date_str_lower), Spell[needle])

days_ahead_or_today(target, today) ==
  LET d == target - weekday(today)
  IN IF d < 0 THEN d + 7 ELSE d

\* days_ahead = target - today.weekday(); if days_ahead <= 0: days_ahead += 7
days_ahead(target, today) ==
  LET d == target - weekday(today)
  IN IF d <= 0 THEN d + 7 ELSE d

\* parse_promise_date(date_str), today being datetime.now().date(): the rules
\* are tried in the order of the code, each a substring test on the
\* lower-case text.
parse_promise_date(date_str, today) ==
  LET date_str_lower == Lower(date_str)
  IN IF InStr("today", date_str_lower) THEN today
     ELSE IF InStr("tomorrow", date_str_lower) THEN today + 1
     ELSE IF InStr("monday", date_str_lower) THEN today + days_ahead(0, today)
     ELSE IF InStr("friday", date_str_lower) THEN today + days_ahead(4, today)
     ELSE IF InStr("next week", date_str_lower) THEN today + 7
     ELSE IF InStr("next month", date_str_lower) THEN today + 30
     ELSE today + 1

\* The date texts the harness resolves: each rule of the function on its own,
\* a text no rule knows, and texts that name Friday together with another
\* rule's words.
DateStrs ==
  {<<"Friday">>, <<"friday">>, <<"FRIDAY">>, <<"next", "Friday">>,
   <<"Friday", "next", "week">>, <<"Friday", "next", "month">>,
   <<"today">>, <<"Tomorrow">>, <<"Monday">>, <<"next", "week">>,
   <<"next", "month">>, <<"5th", "march">>,
   <<"Friday", "or", "Monday">>, <<"today", "or", "Friday">>,
   <<"Friday", "or", "Tomorrow">>}

InitDates ==
  /\ client = "ok"
  /\ TelephonyInit
  /\ HarnessIdle
  /\ DispatchIdle
  /\ p_pc = "call"
  /\ p_today \in 0..MaxToday
  /\ p_date_str \in DateStrs
  /\ p_date = 0
  /\ AmountIdle

ParseCall ==
  /\ p_pc = "call"
  /\ p_date' = parse_promise_date(p_date_str, p_today)
  /\ p_pc' = "returned"
  /\ UNCHANGED <<client, telephony_vars, h_vars, d_vars, expired, p_today, p_date_str,
                 a_vars, in_use>>

NextDates == ParseCall

SpecDates == InitDates /\ [][NextDates]_vars

(***************************************************************************)
(* utils.py: extract_amount_from_text on its own                           *)
(***************************************************************************)
\* Pieces in one text the harness extracts from.
MaxPieces == 3

\* The character U+20B9.
RupeeSign == "rupee-sign"

\* re.IGNORECASE: the text with its upper-case letters folded (the texts of
\* the harness hold one upper-case letter).
FoldCase(cs) == [i \in 1..Len(cs) |-> IF cs[i] = "R" THEN "r" ELSE cs[i]]

\* cs[s..e] matches \d+(?:,\d+)*(?:\.\d{2})?
IsDecimalNumeral(cs, s, e) ==
  \/ IsNumeral(cs, s, e)
  \/ /\ e - 3 >= s
     /\ IsNumeral(cs, s, e - 3)
     /\ cs[e - 2] = "." /\ cs[e - 1] \in Digits /\ cs[e] \in Digits

\* \s*(?:rupees?|rs\.?) stands after position e.
CurrencyWordAfter(cs, e) ==
  \E k \in e..Len(cs) :
    /\ \A j \in (e + 1)..k : cs[j] = " "
    /\ \E c \in CurrencyWords : HasAt(cs, k + 1, Spell[c])

\* The numeral of a match of the pattern that begins with the numeral at s.
\* A numeral is taken as long as the rest of the pattern allows.
NumeralEnds(pattern, cs, s) ==
  {e \in s..Len(cs) :
     /\ IsDecimalNumeral(cs, s, e)
     /\ CASE pattern = "symbol" ->
               \E q \in 1..(s - 1) :
                 cs[q] = RupeeSign /\ \A j \in (q + 1)..(s - 1) : cs[j] = " "
          [] pattern = "word" -> CurrencyWordAfter(cs, e)
          [] pattern = "bare" -> Boundary(cs, s - 1) /\ Boundary(cs, e)}

\* re.search(pattern, text, re.IGNORECASE): group(1) of the leftmost match
\* as the places <<s, e>> of its first and last character, or nothing.  The
\* symbol pattern starts at its sign and the numeral follows the sign and the
\* blanks after it, so the leftmost match has the leftmost numeral.
search(pattern, text) ==
  LET cs == FoldCase(text)
      starts == {s \in 1..Len(cs) : NumeralEnds(pattern, cs, s) # {}}
  IN IF starts = {} THEN {}
     ELSE LET s == Min(starts) IN {<<s, Max(NumeralEnds(pattern, cs, s))>>}

patterns_bare_first == <<"bare", "symbol", "word">>

\* patterns, in the order of the list
patterns == <<"symbol", "word", "bare">>

\* A string of digits without its leading zeros.
RECURSIVE StripZeros(_)
StripZeros(ds) ==
  IF ds # <<>> /\ Head(ds) = "0" THEN StripZeros(Tail(ds)) ELSE ds

\* float(amount_str) of a string \d+(?:\.\d{2})?: the digits of its whole
\* part and the number of its hundredths (equal records are equal floats; the
\* numerals of the harness are shorter than the 15 digits a float holds).
FloatOf(amount_str) ==
  LET n == Len(amount_str)
  IN IF n >= 3 /\ amount_str[n - 2] = "."
     THEN [units |-> StripZeros(SubSeq(amount_str, 1, n - 3)),
           hundredths |-> DecimalValue(SubSeq(amount_str, n - 1, n))]
     ELSE [units |-> StripZeros(amount_str), hundredths |-> 0]

\* 0.0
Zero == [units |-> <<>>, hundredths |-> 0]

\* The loop over the patterns from the k-th on: the first match is returned
\* (float() of a matched numeral without its commas never raises), 0.0 when
\* no pattern matches.
RECURSIVE extract_from(_, _)
extract_from(text, k) ==
  IF k > Len(patterns) THEN Zero
  ELSE LET match == search(patterns[k], text)
       IN IF match # {}
          THEN LET m == CHOOSE x \in match : TRUE
               IN FloatOf(StripCommas(SubSeq(text, m[1], m[2])))
          ELSE extract_from(text, k + 1)

extract_amount_from_text(text) == extract_from(text, 1)

\* The pieces the texts of the harness are made of.
AmountPieces ==
  {<<RupeeSign>>, <<"2", ",", "5", "0", "0">>, <<"1", "0", "0">>, <<".", "0", "0">>,
   <<".", "5">>, <<" ">>, <<"r", "u", "p", "e", "e", "s">>, <<"R", "s", ".">>, <<"a">>}

RECURSIVE AmountTexts(_)
AmountTexts(n) ==
  IF n = 0 THEN {<<>>}
  ELSE LET shorter == AmountTexts(n - 1)
       IN shorter \cup {t \o piece : t \in shorter, piece \in AmountPieces}

InitAmount ==
  /\ client = "ok"
  /\ TelephonyInit
  /\ HarnessIdle
  /\ DispatchIdle
  /\ DatesIdle
  /\ a_pc = "call"
  /\ a_text \in AmountTexts(MaxPieces)
  /\ a_amount = Zero

ExtractCall ==
  /\ a_pc = "call"
  /\ a_amount' = extract_amount_from_text(a_text)
  /\ a_pc' = "returned"
  /\ UNCHANGED <<client, telephony_vars, h_vars, d_vars, expired, p_vars, a_text, in_use>>

NextAmount == ExtractCall

SpecAmount == InitAmount /\ [][NextAmount]_vars

(***************************************************************************)
(* Properties of the dispatcher                                            *)
(***************************************************************************)
DispatchReturns == d_pc = "call" /\ d_pc' = "returned"

DispatchReturned(intent) ==
  d_pc = "returned" /\ d_analysis["intent"] = JStr(intent)

\* The reason the specification gives a record: slots.reason if the slot is
\* present, else the default text.
ClaimedReason(default) ==
  IF "reason" \in DOMAIN d_analysis["slots"].v
  THEN d_analysis["slots"].v["reason"] ELSE JStr(default)

\* C11: a dispatch with intent DO_NOT_CALL either sets the borrower's flag
\* and appends exactly one DNC request for the borrower and the session, with
\* reason slots.reason if present and else 'Customer request', or it fails
\* and leaves both the flags and the requests as they were.
C11_OptOutBothOrNeither ==
  [][(DispatchReturns /\ d_analysis["intent"] = JStr("DO_NOT_CALL")) =>
       \/ /\ d_status' = "success"
          /\ IsObj(d_analysis["slots"])
          /\ is_dnc' = [is_dnc EXCEPT ![d_borrower] = TRUE]
          /\ dnc_requests' = Append(dnc_requests,
               [borrower_id |-> d_borrower, call_session_id |-> d_session,
                reason |-> ClaimedReason("Customer request")])
       \/ /\ d_status' = "error"
          /\ is_dnc' = is_dnc
          /\ dnc_requests' = dnc_requests]_vars

\* A DO_NOT_CALL dispatch with a reason slot has flagged a borrower who was
\* not flagged and recorded the request.
C11_Witness ==
  /\ DispatchReturned("DO_NOT_CALL")
  /\ d_status = "success"
  /\ "reason" \in DOMAIN d_analysis["slots"].v
  /\ is_dnc[d_borrower]
  /\ \E b \in BorrowerIds : ~is_dnc[b]
  /\ Len(dnc_requests) = 1

\* C12: a PROMISE_TO_PAY dispatch that succeeds has persisted one promise
\* whose date is slots.date if the slot is present and else 'tomorrow'.
C12_PromiseDateDefaultsToTomorrow ==
  (DispatchReturned("PROMISE_TO_PAY") /\ d_status = "success") =>
    /\ Len(ptp_promises) = 1
    /\ ptp_promises[1].promise_date =
         IF "date" \in DOMAIN d_analysis["slots"].v
         THEN d_analysis["slots"].v["date"] ELSE JStr("tomorrow")

\* The amount the specification gives a promise: slots.amount if present and
\* a number or a numeral, else the borrower's due amount.
ClaimedAmount ==
  LET slots == d_analysis["slots"].v
  IN IF "amount" \in DOMAIN slots /\ ~FloatRaises(slots["amount"])
     THEN Float(slots["amount"])
     ELSE DueAmount(d_borrower)

\* C13: a PROMISE_TO_PAY dispatch whose slots are a mapping and whose write
\* the database accepts has persisted one promise, with amount slots.amount
\* when the slot is present and parseable and with the borrower's due amount
\* otherwise, absent or unparseable.
C13_PromiseAmountOrDueAmount ==
  (/\ DispatchReturned("PROMISE_TO_PAY")
   /\ IsObj(d_analysis["slots"])
   /\ faults = 0) =>
    /\ Len(ptp_promises) = 1
    /\ ptp_promises[1].amount = ClaimedAmount

\* C14: a CALLBACK_LATER dispatch whose slots are a mapping with a reason
\* the database can store, and whose write the database accepts, succeeds;
\* one that succeeds has recorded exactly one callback for the borrower and
\* the session, at now + 24 hours whatever slots.date holds, with reason
\* slots.reason if present and else the default text.
C14_CallbackInOneDay ==
  /\ (/\ DispatchReturned("CALLBACK_LATER")
      /\ IsObj(d_analysis["slots"])
      /\ ~Unstorable(ClaimedReason("Customer requested callback"))
      /\ faults = 0) => d_status = "success"
  /\ (DispatchReturned("CALLBACK_LATER") /\ d_status = "success") =>
       callbacks =
         <<[borrower_id |-> d_borrower, call_session_id |-> d_session,
            scheduled_at |-> JStr("now + 24 hours"),
            reason |-> ClaimedReason("Customer requested callback")]>>

\* A CALLBACK_LATER dispatch with a date slot and a reason slot succeeded.
C14_Witness ==
  /\ DispatchReturned("CALLBACK_LATER")
  /\ d_status = "success"
  /\ {"date", "reason"} \subseteq DOMAIN d_analysis["slots"].v
  /\ Len(callbacks) = 1

\* C15: a dispatch with an intent other than PROMISE_TO_PAY, DO_NOT_CALL and
\* CALLBACK_LATER leaves the promises, the DNC requests, the callbacks and
\* every borrower's flag as they were.
C15_OtherIntentsWriteNothing ==
  [][(/\ DispatchReturns
      /\ d_analysis["intent"] \notin
           {JStr("PROMISE_TO_PAY"), JStr("DO_NOT_CALL"), JStr("CALLBACK_LATER")}) =>
       UNCHANGED <<ptp_promises, dnc_requests, callbacks, is_dnc>>]_vars

\* A WRONG_NUMBER dispatch returned success for a borrower who is not
\* flagged.
C15_Witness ==
  /\ DispatchReturned("WRONG_NUMBER")
  /\ d_status = "success"
  /\ ~is_dnc[d_borrower]
  /\ dnc_requests = <<>>

\* C16: a turn whose dispatch failed still completes.  The step of
\* handle_intent returns an error status when its write fails and the handler
\* goes on to update the session; and when the dispatch returned an error
\* status and the session update itself is accepted by the database, the
\* handler answers with the reply_text and the next_state of the analysis,
\* not with the technical-difficulty message, and the session's current_state
\* becomes that next_state.
C16_DispatchFailureKeepsReply ==
  [][\A w \in DOMAIN workers :
       /\ (workers[w].pc = "intent" /\ workers'[w] # workers[w] /\ faults' # faults) =>
            /\ workers'[w].pc = "update"
            /\ workers'[w].next_action.status = "error"
            /\ UNCHANGED <<ptp_promises, dnc_requests, callbacks, is_dnc>>
       /\ (/\ workers[w].pc = "update"
           /\ workers[w].next_action.status = "error"
           /\ workers'[w] # workers[w]
           /\ faults' = faults) =>
            /\ workers'[w] =
                 Finished("handle_speech_result",
                          SpeechResponse(workers[w].session_id, workers[w].borrower_id,
                                         workers[w].analysis))
            /\ workers'[w] # SpeechFailed
            /\ call_sessions'[workers[w].session_id].current_state =
                 workers[w].analysis["next_state"]]_vars

\* A turn classified DO_NOT_CALL has ended with the reply of its analysis and
\* the session in END_CALL although the dispatch failed: the bot's turn is in
\* the ledger, nothing is in dnc_requests and no borrower is flagged.
C16_Witness ==
  \E w \in DOMAIN workers :
    /\ workers[w].pc = "done"
    /\ workers[w].op = "handle_speech_result"
    /\ workers[w].response = <<Say(JText(<<"ok">>)), Hangup>>
    /\ faults = 1
    /\ dnc_requests = <<>>
    /\ \A b \in BorrowerIds : ~is_dnc[b]
    /\ \E k \in 1..Len(call_logs) : call_logs[k].intent = JStr("DO_NOT_CALL")
    /\ \E s \in DOMAIN call_sessions : call_sessions[s].current_state = JStr("END_CALL")

Terminal(state) == state \in {JStr("END_CALL"), JStr("TRANSFER")}

\* C17: once a session's current_state is END_CALL or TRANSFER, no step
\* appends a turn to that session's ledger and no handler working on that
\* session calls the classifier.
C17_NoTurnsAfterTerminal ==
  [][\A s \in DOMAIN call_sessions :
       Terminal(call_sessions[s].current_state) =>
         /\ SelectSeq(call_logs', LAMBDA r : r.call_session_id = s) =
            SelectSeq(call_logs, LAMBDA r : r.call_session_id = s)
         /\ \A w \in DOMAIN workers :
              (workers[w].pc = "analyze" /\ workers[w].session_id = s) =>
                workers'[w] = workers[w]]_vars

\* C18: once a session's current_state is END_CALL or TRANSFER, no step sets
\* it to a state other than these two.
C18_TerminalStateStays ==
  [][\A s \in DOMAIN call_sessions :
       Terminal(call_sessions[s].current_state) =>
         Terminal(call_sessions'[s].current_state)]_vars

StateValues == {JStr(state) : state \in CallState}

\* C19: every current_state a turn handler writes is a member of the state
\* set: each session's current_state is the column's default or a member,
\* and so is the next_state of every analysis a handler holds between the
\* classification and the session update, whether the remote reply or the
\* fallback produced it and whatever state the request's URL carried.
C19_CurrentStateInStateSet ==
  /\ \A s \in DOMAIN call_sessions :
       \/ call_sessions[s].current_state = ColumnDefault
       \/ call_sessions[s].current_state \in StateValues
  /\ \A w \in DOMAIN workers :
       workers[w].pc \in {"log_bot", "intent", "update"} =>
         workers[w].analysis["next_state"] \in StateValues

\* A turn whose remote reply proposed a next_state outside the state set
\* (the reply with intent PROMISE_TO_PAY and sentiment 'happy') has been
\* logged and the session's current_state written as MAIN_MENU.
C19_Witness ==
  /\ \E k \in 1..Len(call_logs) :
       /\ call_logs[k].role = "BOT"
       /\ call_logs[k].intent = JStr("PROMISE_TO_PAY")
       /\ call_logs[k].slots = JNull
  /\ \E s \in DOMAIN call_sessions : call_sessions[s].current_state = JStr("MAIN_MENU")
  /\ \E w \in DOMAIN workers :
       workers[w].pc = "done" /\ workers[w].op = "handle_speech_result"

(***************************************************************************)
(* Properties of the turn-handling cycle                                   *)
(***************************************************************************)
\* The worker takes a step of handle_speech_result from the given position.
CycleStep(w, pc) == workers[w].pc = pc /\ workers'[w] # workers[w]

\* C21: when a turn write (log_call_turn for the caller's or the bot's turn)
\* or the session write (update_call_session) of handle_speech_result fails,
\* the handler ends at that step: nothing is written, the response is the
\* technical-difficulty message followed by a hangup, it holds no gather, and
\* no continue URL is handed out.
C21_WriteFailureAbortsCycle ==
  [][\A w \in DOMAIN workers :
       (\/ CycleStep(w, "log_caller") /\ call_logs' = call_logs
        \/ CycleStep(w, "log_bot") /\ call_logs' = call_logs
        \/ CycleStep(w, "update") /\ faults' # faults) =>
         /\ workers'[w].pc = "done"
         /\ workers'[w].response = <<Say(JText(SpeechErrorText)), Hangup>>
         /\ \A k \in 1..Len(workers'[w].response) : workers'[w].response[k].verb # "Gather"
         /\ workers'[w].response[Len(workers'[w].response)] = Hangup
         /\ UNCHANGED <<db_vars, continue_urls>>]_vars

\* The bot's turn of a cycle could not be written: the caller's turn is the
\* last row, one write has failed, and the handler has answered with the
\* technical-difficulty message.
C21_Witness ==
  \E w \in DOMAIN workers :
    /\ workers[w] = Finished("handle_speech_result", <<Say(JText(SpeechErrorText)), Hangup>>)
    /\ faults = 1
    /\ call_logs # <<>>
    /\ call_logs[Len(call_logs)].role = "CALLER"

\* C22: a cycle of handle_speech_result that ends in its except branch has
\* left no turn in the session's ledger: no row of the session carries a turn
\* number from the cycle's current_turn on.
C22_FailedCycleLogsNothing ==
  [][\A w \in DOMAIN workers :
       (/\ workers[w].pc \in {"log_caller", "analyze", "log_bot", "intent", "update"}
        /\ workers'[w].pc = "done"
        /\ workers'[w].response = <<Say(JText(SpeechErrorText)), Hangup>>) =>
         \A k \in 1..Len(call_logs') :
           call_logs'[k].call_session_id = workers[w].session_id =>
             call_logs'[k].turn_no < workers[w].current_turn]_vars

\* C23: while a handler waits for the remote classifier, the server that
\* runs it can take the next request: as long as requests remain to be
\* delivered, handle_incoming_call for some other call can start on it.
C23_RemoteCallDoesNotBlockOthers ==
  \A w \in DOMAIN workers :
    (workers[w].pc = "analyze" /\ deliveries < MaxDeliveries) =>
      ENABLED (\E call \in InboundCalls : handle_incoming_call(w, call))

\* The session's ledger holds a row of the given role and turn number.
TurnLogged(session_id, role, turn_no) ==
  \E k \in 1..Len(call_logs) :
    /\ call_logs[k].call_session_id = session_id
    /\ call_logs[k].role = role
    /\ call_logs[k].turn_no = turn_no

\* C24: the steps of a cycle come in the order caller turn, analysis,
\* dispatch, bot turn, session update: once the analysis is being resolved
\* the caller's turn is in the ledger; when the dispatcher is about to run
\* the bot's turn of the cycle is not yet in the ledger; when the session is
\* about to be updated the bot's turn is in the ledger.
C24_DispatchBeforeBotTurn ==
  \A w \in DOMAIN workers :
    /\ workers[w].pc \in {"analyze", "log_bot", "intent", "update"} =>
         TurnLogged(workers[w].session_id, "CALLER", workers[w].current_turn)
    /\ workers[w].pc = "intent" =>
         ~TurnLogged(workers[w].session_id, "BOT", workers[w].current_turn + 1)
    /\ workers[w].pc = "update" =>
         TurnLogged(workers[w].session_id, "BOT", workers[w].current_turn + 1)

(***************************************************************************)
(* Properties of the call entry points                                     *)
(***************************************************************************)
\* C25: handle_incoming_call for a number no borrower has, or for a number
\* whose borrower is flagged do-not-call, answers with the explanatory
\* message for that case and a hangup, and writes nothing: no session, no
\* turn, no continue URL.
C25_RefusedCallersGetNoSession ==
  [][\A w \in DOMAIN workers, call \in InboundCalls :
       handle_incoming_call(w, call) =>
         /\ BorrowersByPhone(call.from) = {} =>
              /\ workers'[w].response = <<Say(JText(UnknownCallerText)), Hangup>>
              /\ UNCHANGED <<db_vars, continue_urls>>
         /\ (\E b \in BorrowersByPhone(call.from) : is_dnc[b]) =>
              /\ workers'[w].response = <<Say(JText(DncCallerText)), Hangup>>
              /\ UNCHANGED <<db_vars, continue_urls>>]_vars

\* A borrower flagged in an earlier call has called again and has been
\* refused: the only session is the one of the earlier call.
C25_Witness ==
  \E w \in DOMAIN workers :
    /\ workers[w] = Finished("handle_incoming_call", <<Say(JText(DncCallerText)), Hangup>>)
    /\ \E b \in BorrowerIds : is_dnc[b]
    /\ Len(call_sessions) = 1
    /\ dnc_requests # <<>>

\* C26: initiate_outbound_call for a flagged borrower creates no session and
\* hands no greeting URL to the provider; for a borrower who is not flagged
\* it never creates more than one session, it returns success when no
\* operation fails, and when it returns success the sessions are the old
\* ones followed by exactly one new session of that borrower with direction
\* OUTBOUND, status INITIATED and no state set.
C26_OutboundRespectsDnc ==
  [][\A w \in DOMAIN workers, b \in BorrowerIds :
       initiate_outbound_call(w, b) =>
         /\ is_dnc[b] =>
              /\ UNCHANGED <<db_vars, greeting_urls>>
              /\ workers'[w].response = OutboundError("Borrower is on do-not-call list")
         /\ ~is_dnc[b] =>
              /\ Len(call_sessions') \in {Len(call_sessions), Len(call_sessions) + 1}
              /\ SubSeq(call_sessions', 1, Len(call_sessions)) = call_sessions
              /\ faults' = faults => workers'[w].response[1].status = 200
              /\ workers'[w].response[1].status = 200 =>
                   /\ Len(call_sessions') = Len(call_sessions) + 1
                   /\ LET new == call_sessions'[Len(call_sessions')]
                      IN /\ new.borrower_id = b
                         /\ new.direction = "OUTBOUND"
                         /\ new.status = "INITIATED"
                         /\ new.current_state = ColumnDefault]_vars

\* An outbound call to a borrower flagged in an earlier call has been
\* refused: the only session is the one of the earlier call.
C26_Witness ==
  \E w \in DOMAIN workers :
    /\ workers[w] = Finished("initiate_outbound_call",
                              OutboundError("Borrower is on do-not-call list"))
    /\ \E b \in BorrowerIds : is_dnc[b]
    /\ Len(call_sessions) = 1
    /\ greeting_urls = {}

\* C27: a failure of the audit write of create_call_session is not
\* propagated.  In a step of handle_incoming_call or initiate_outbound_call
\* that inserts the session row and writes no audit row, create_call_session
\* returns the session id and the handler goes on: the inbound handler
\* answers with the consent text and the gather, the outbound handler, when
\* nothing else fails, places the call and answers success.
C27_AuditFailureNotPropagated ==
  [][\A w \in DOMAIN workers :
       /\ \A call \in InboundCalls :
            (/\ handle_incoming_call(w, call)
             /\ Len(call_sessions') = Len(call_sessions) + 1
             /\ audit' = audit) =>
              /\ workers'[w].response[1].verb = "Say"
              /\ workers'[w].response[1].text # JText(IncomingErrorText)
              /\ workers'[w].response[2].verb = "Gather"
       /\ \A b \in BorrowerIds :
            (/\ initiate_outbound_call(w, b)
             /\ Len(call_sessions') = Len(call_sessions) + 1
             /\ audit' = audit
             /\ faults' = faults + 1) =>
              /\ workers'[w].response[1].status = 200
              /\ greeting_urls' # greeting_urls]_vars

C29_LedgerAppendOnly ==
  [][/\ Len(call_logs') >= Len(call_logs)
     /\ SubSeq(call_logs', 1, Len(call_logs)) = call_logs]_vars

(***************************************************************************)
(* Properties of the promise date                                          *)
(***************************************************************************)
\* The date text names Friday and none of the days the function looks for
\* before it.
NamesFriday(date_str) ==
  /\ InStr("friday", Lower(date_str))
  /\ ~InStr("today", Lower(date_str))
  /\ ~InStr("tomorrow", Lower(date_str))
  /\ ~InStr("monday", Lower(date_str))

HasRowFor(table, session_id) ==
  \E j \in 1..Len(table) : table[j].call_session_id = session_id

\* The ledger has a bot turn of the session with the intent.
HasBotTurn(session_id, intent) ==
  \E i \in 1..Len(call_logs) :
    /\ call_logs[i].call_session_id = session_id
    /\ call_logs[i].role = "BOT"
    /\ call_logs[i].intent = JStr(intent)

\* C34: between turn cycles the ledger and the side-effect tables agree: a
\* session with a bot turn of intent PROMISE_TO_PAY, DO_NOT_CALL or
\* CALLBACK_LATER has a row in ptp_promises, dnc_requests or callbacks, and a
\* session with such a row has the bot turn.
C34_TurnAndSideEffectAtomic ==
  (\A w \in Workers : Free(w)) =>
    \A session_id \in 1..Len(call_sessions) :
      /\ HasBotTurn(session_id, "PROMISE_TO_PAY") <=> HasRowFor(ptp_promises, session_id)
      /\ HasBotTurn(session_id, "DO_NOT_CALL") <=> HasRowFor(dnc_requests, session_id)
      /\ HasBotTurn(session_id, "CALLBACK_LATER") <=> HasRowFor(callbacks, session_id)

(***************************************************************************)
(* Properties of the do-not-call flag                                      *)
(***************************************************************************)
\* C35: a do-not-call flag that is set stays set in every step, no step adds
\* a session of a flagged borrower, and the campaign read returns no flagged
\* borrower before or after the step.
C35_DncFlagIsPermanent ==
  [][\A b \in BorrowerIds :
       is_dnc[b] =>
         /\ is_dnc'[b]
         /\ Len(call_sessions') >= Len(call_sessions)
         /\ \A i \in (Len(call_sessions) + 1)..Len(call_sessions') :
              call_sessions'[i].borrower_id # b
         /\ b \notin get_overdue_borrowers
         /\ b \notin get_overdue_borrowers']_vars

\* Borrower 1, whose loan is overdue and who was in the campaign, asked in a
\* turn to stop the calls; an outbound call for the borrower was then
\* refused and the campaign read no longer returns the borrower.
C35_Witness ==
  \E w \in DOMAIN workers :
    /\ workers[w] = Finished("initiate_outbound_call",
                              OutboundError("Borrower is on do-not-call list"))
    /\ is_dnc[1]
    /\ \E j \in 1..Len(dnc_requests) : dnc_requests[j].borrower_id = 1
    /\ LoanOverdue(1) /\ CallCount(1) < max_call_attempts
    /\ 1 \notin get_overdue_borrowers

(***************************************************************************)
(* Properties of the roles in the ledger                                   *)
(***************************************************************************)
\* C36: in the ledger of a session greeted once whose greeting was logged as
\* BOT turn 1, and whose handlers ran one after the other, every odd turn
\* number is a BOT turn and every even turn number is a CALLER turn with null
\* intent and sentiment.
C36_RolesAlternate ==
  \A s \in Sessions :
    (/\ greeted[s] = 1
     /\ Len(Ledger(s)) >= 1
     /\ Ledger(s)[1].role = "BOT"
     /\ Ledger(s)[1].turn_no = 1) =>
      \A k \in 1..Len(Ledger(s)) :
        IF Ledger(s)[k].turn_no % 2 = 1
        THEN Ledger(s)[k].role = "BOT"
        ELSE /\ Ledger(s)[k].role = "CALLER"
             /\ Ledger(s)[k].intent = JNull
             /\ Ledger(s)[k].sentiment = JNull

(***************************************************************************)
(* Properties of the connection pool                                       *)
(***************************************************************************)
\* C37: the connections out of the pool are those of the handlers that are
\* running: every handler that has ended, on whatever path, has given its
\* connection back.
C37_ConnectionsReturned ==
  in_use = Cardinality({w \in Workers : ~Free(w)})

(***************************************************************************)
(* Properties of the amount extraction                                     *)
(***************************************************************************)
\* The value of the match of a rule: its numeral without the commas.
RuleValue(pattern, text) ==
  LET m == CHOOSE x \in search(pattern, text) : TRUE
  IN FloatOf(StripCommas(SubSeq(text, m[1], m[2])))

FallbackUsed(analysis) ==
  DictGet(analysis, "fallback_used", JBool(FALSE)) = JBool(TRUE)

\* C32: a turn that the fallback classifies never gets intent VERIFICATION
\* or GREETING (no entry of its pattern table carries either); when the request carries state VERIFY_IDENTITY the analysis
\* proposes VERIFY_IDENTITY again, and the completed turn stores that state
\* and hands out the one callback that carries it: the turn neither hangs
\* up, nor dials, nor moves to another state.
C32_FallbackStaysInVerifyIdentity ==
  [][\A w \in DOMAIN workers :
       /\ (CycleStep(w, "analyze") /\ FallbackUsed(workers'[w].analysis)) =>
            /\ workers'[w].analysis["intent"] \notin {JStr("VERIFICATION"), JStr("GREETING")}
            /\ \A i \in 1..Len(intent_patterns) :
                 intent_patterns[i].intent \notin {"VERIFICATION", "GREETING"}
            /\ workers[w].state = JStr("VERIFY_IDENTITY") =>
                 workers'[w].analysis["next_state"] = JStr("VERIFY_IDENTITY")
       /\ (/\ CycleStep(w, "update")
           /\ FallbackUsed(workers[w].analysis)
           /\ workers[w].analysis["next_state"] = JStr("VERIFY_IDENTITY")
           /\ workers'[w] # SpeechFailed) =>
            LET url == ContinueUrl(workers[w].session_id, workers[w].borrower_id,
                                   JStr("VERIFY_IDENTITY"))
            IN /\ call_sessions'[workers[w].session_id].current_state = JStr("VERIFY_IDENTITY")
               /\ Verbs(workers'[w].response) = <<"Say", "Gather", "Say", "Hangup">>
               /\ workers'[w].response[2] = Gather(url)
               /\ continue_urls' = continue_urls \cup {url}]_vars

\* Without a remote classifier a caller in VERIFY_IDENTITY asked to stop the
\* calls: the turn was classified, the borrower is flagged, and the session
\* is still in VERIFY_IDENTITY with a gather for the next turn.
C32_Witness ==
  \E w \in DOMAIN workers :
    /\ client = "None"
    /\ workers[w].pc = "done"
    /\ workers[w].op = "handle_speech_result"
    /\ Verbs(workers[w].response) = <<"Say", "Gather", "Say", "Hangup">>
    /\ workers[w].response[2].action.state = JStr("VERIFY_IDENTITY")
    /\ call_sessions[workers[w].response[2].action.session_id].current_state
         = JStr("VERIFY_IDENTITY")
    /\ \E i \in 1..Len(call_logs) :
         call_logs[i].role = "BOT" /\ call_logs[i].intent = JStr("DO_NOT_CALL")

\* C33: the dispatcher acts on the intent of every turn whatever the state.
\* When handle_intent succeeds, a DO_NOT_CALL turn has flagged the borrower
\* and added a dnc_requests row, a PROMISE_TO_PAY turn has added a
\* ptp_promises row and a CALLBACK_LATER turn a callbacks row, each for the
\* turn's session and borrower, also when the turn leaves the session in
\* VERIFY_IDENTITY; and the fallback gives a DO_NOT_CALL turn in
\* VERIFY_IDENTITY the next state VERIFY_IDENTITY, not END_CALL.
C33_DispatchRunsInEveryState ==
  [][\A w \in DOMAIN workers :
       /\ (CycleStep(w, "intent") /\ workers'[w].next_action.status = "success") =>
            LET intent == workers[w].analysis["intent"]
                b == workers[w].borrower_id
                sid == workers[w].session_id
                Added(old, new) ==
                  /\ Len(new) = Len(old) + 1
                  /\ SubSeq(new, 1, Len(old)) = old
                  /\ new[Len(new)].borrower_id = b
                  /\ new[Len(new)].call_session_id = sid
            IN /\ intent = JStr("DO_NOT_CALL") => is_dnc'[b] /\ Added(dnc_requests, dnc_requests')
               /\ intent = JStr("PROMISE_TO_PAY") => Added(ptp_promises, ptp_promises')
               /\ intent = JStr("CALLBACK_LATER") => Added(callbacks, callbacks')
       /\ (/\ CycleStep(w, "analyze")
           /\ workers[w].state = JStr("VERIFY_IDENTITY")
           /\ FallbackUsed(workers'[w].analysis)
           /\ workers'[w].analysis["intent"] = JStr("DO_NOT_CALL")) =>
            workers'[w].analysis["next_state"] = JStr("VERIFY_IDENTITY")]_vars

\* A caller in VERIFY_IDENTITY asked for a callback and the fallback
\* classified the turn: the callbacks row of the session is written and the
\* turn ended with a gather that keeps the session in VERIFY_IDENTITY.
C33_Witness ==
  \E w \in DOMAIN workers :
    /\ workers[w].pc = "done"
    /\ workers[w].op = "handle_speech_result"
    /\ Verbs(workers[w].response) = <<"Say", "Gather", "Say", "Hangup">>
    /\ workers[w].response[2].action.state = JStr("VERIFY_IDENTITY")
    /\ \E i \in 1..Len(callbacks) :
         callbacks[i].call_session_id = workers[w].response[2].action.session_id
    /\ \E i \in 1..Len(call_logs) :
         /\ call_logs[i].call_session_id = workers[w].response[2].action.session_id
         /\ call_logs[i].intent = JStr("CALLBACK_LATER")

(***************************************************************************)
(* Properties of the analysis                                              *)
(***************************************************************************)
\* The remote exchange of the call ran and failed in one of the modes of
\* the claim.
RemoteFailureMode ==
  \/ client = "None"
  \/ h_remote.kind \in {"prompt_missing", "api_error", "no_json", "bad_json"}
  \/ h_remote.kind = "json" /\ ~(required_fields \subseteq DOMAIN h_remote.obj)

\* The remote exchange of the call gave a JSON object with all five
\* required keys.
RemoteSucceeded ==
  /\ client = "ok"
  /\ h_remote.kind = "json"
  /\ required_fields \subseteq DOMAIN h_remote.obj

WellTyped(result) ==
  /\ required_fields \subseteq DOMAIN result
  /\ IsStr(result["intent"]) /\ result["intent"].v \in Intent
  /\ IsStr(result["sentiment"]) /\ result["sentiment"].v \in Sentiment
  /\ IsStr(result["next_state"]) /\ result["next_state"].v \in CallState
  /\ IsObj(result["slots"])

\* C5: every call of analyze_utterance returns a result holding intent,
\* sentiment, slots, reply_text and next_state, the three enumerated fields
\* members of their enums and slots a mapping.
C5_AnalysisWellTyped == h_pc = "returned" => WellTyped(h_result)

\* C6: when the remote classifier fails (no client, prompt missing, API
\* error, no JSON object, unparseable JSON, a required key missing) the
\* result is the rule-based fallback's result for the same text and context,
\* and its fallback_used is true.
C6_FailureGivesFallback ==
  (h_pc = "returned" /\ RemoteFailureMode) =>
    /\ h_result = fallback_analysis(h_text, h_context)
    /\ "fallback_used" \in DOMAIN h_result
    /\ h_result["fallback_used"] = JBool(TRUE)

C6_Witness ==
  /\ h_pc = "returned"
  /\ h_remote.kind = "json"
  /\ DOMAIN h_remote.obj = required_fields \ {"slots"}
  /\ h_result["intent"] = JStr("PROMISE_TO_PAY")
  /\ h_result["fallback_used"] = JBool(TRUE)

\* C7: when the remote classifier succeeds (a JSON object with all five
\* required keys) the result carries fallback_used = false.
C7_SuccessNotFallback ==
  (h_pc = "returned" /\ RemoteSucceeded /\ ~NormalizeRaises(h_remote.obj)) =>
    /\ "fallback_used" \in DOMAIN h_result
    /\ h_result["fallback_used"] = JBool(FALSE)

\* current_state as the fallback reads it from the context of the call.
HarnessState == DictGet(h_context, "current_state", JStr("START"))

\* C8: on the fallback path with current_state = VERIFY_IDENTITY, a text
\* whose detected intent is not VERIFICATION leaves next_state at
\* VERIFY_IDENTITY, and next_state is MAIN_MENU only for VERIFICATION.
C8_NoProgressWithoutVerification ==
  (h_pc = "returned" /\ HarnessState = JStr("VERIFY_IDENTITY")) =>
    /\ h_result.intent # JStr("VERIFICATION") =>
         h_result.next_state = JStr("VERIFY_IDENTITY")
    /\ h_result.next_state = JStr("MAIN_MENU") =>
         h_result.intent = JStr("VERIFICATION")

C8_Witness ==
  /\ h_pc = "returned"
  /\ HarnessState = JStr("VERIFY_IDENTITY")
  /\ h_text = <<"stop", "calling", "me">>
  /\ h_result.intent = JStr("DO_NOT_CALL")
  /\ h_result.next_state = JStr("VERIFY_IDENTITY")

\* The table order the claim states.
ClaimedOrder ==
  <<"MAKE_PAYMENT", "PROMISE_TO_PAY", "DISPUTE", "WRONG_NUMBER",
    "CALLBACK_LATER", "HARDSHIP", "TRANSFER_AGENT", "DO_NOT_CALL">>

\* Some pattern listed under the intent is found in the lower-cased text.
IntentMatches(name, toks) ==
  \E i \in 1..Len(intent_patterns) :
    /\ intent_patterns[i].intent = name
    /\ \E p \in 1..Len(intent_patterns[i].patterns) :
         Search(intent_patterns[i].patterns[p], toks)

\* The places in the claimed order of the intents that match the text.
MatchingPlaces(toks) ==
  {k \in 1..Len(ClaimedOrder) : IntentMatches(ClaimedOrder[k], toks)}

\* C9: the fallback's intent is the first intent, in the order MAKE_PAYMENT,
\* PROMISE_TO_PAY, DISPUTE, WRONG_NUMBER, CALLBACK_LATER, HARDSHIP,
\* TRANSFER_AGENT, DO_NOT_CALL, that has a matching pattern, whatever other
\* intents match as well; it is UNCLEAR exactly when none matches.
C9_FirstInTableOrderWins ==
  h_pc = "returned" =>
    LET places == MatchingPlaces(Lower(h_text)) IN
    /\ places # {} => h_result.intent = JStr(ClaimedOrder[Min(places)])
    /\ places = {} <=> h_result.intent = JStr("UNCLEAR")

\* A hardship phrase ahead of a pay-now phrase classifies as MAKE_PAYMENT.
C9_Witness ==
  /\ h_pc = "returned"
  /\ h_text = <<"hardship", "pay", "today">>
  /\ MatchingPlaces(Lower(h_text)) = {1, 6}
  /\ h_result.intent = JStr("MAKE_PAYMENT")

\* The next state the claim gives for each intent.
ClaimedNextState(intent) ==
  CASE intent \in {"MAKE_PAYMENT", "PROMISE_TO_PAY"} -> "COLLECT_DETAILS"
    [] intent = "TRANSFER_AGENT" -> "TRANSFER"
    [] intent = "DO_NOT_CALL" -> "END_CALL"
    [] OTHER -> "MAIN_MENU"

\* C10: on the fallback path with a current_state other than
\* VERIFY_IDENTITY, next_state is a function of the detected intent alone
\* (payment and promise: COLLECT_DETAILS, transfer: TRANSFER, do-not-call:
\* END_CALL, all others: MAIN_MENU); "I will pay tomorrow" in MAIN_MENU gives
\* PROMISE_TO_PAY, COLLECT_DETAILS and slots.date = "tomorrow".
C10_NextStateByIntent ==
  (h_pc = "returned" /\ HarnessState # JStr("VERIFY_IDENTITY")) =>
    /\ h_result.next_state = JStr(ClaimedNextState(h_result.intent.v))
    /\ (h_text = <<"I", "will", "pay", "tomorrow">> /\ HarnessState = JStr("MAIN_MENU")) =>
         /\ h_result.intent = JStr("PROMISE_TO_PAY")
         /\ h_result.next_state = JStr("COLLECT_DETAILS")
         /\ "date" \in DOMAIN h_result.slots.v
         /\ h_result.slots.v["date"] = JStr("tomorrow")

C10_Witness ==
  /\ h_pc = "returned"
  /\ h_text = <<"I", "will", "pay", "tomorrow">>
  /\ HarnessState = JStr("MAIN_MENU")
  /\ h_result.intent = JStr("PROMISE_TO_PAY")
  /\ h_result.reply_text = JText(ReplyAskDate)

\* C20: when the remote reply is complete and its three enumerated values
\* are strings, the next_state of the result is the proposed state in upper
\* case if that is one of the eight states, and MAIN_MENU otherwise.
C20_StateValidation ==
  (/\ h_pc = "returned"
   /\ RemoteSucceeded
   /\ ~ContextTextRaises(h_context)
   /\ ~NormalizeRaises(h_remote.obj)) =>
    h_result["next_state"] =
      IF Upper(h_remote.obj["next_state"].v) \in CallState
      THEN JStr(Upper(h_remote.obj["next_state"].v))
      ELSE JStr("MAIN_MENU")

=============================================================================
